---- MODULE Spec2Model ----
(***************************************************************************)
(* Model of the Apps_logging_app runtime: the connection orchestrator      *)
(* (orchestration/orchestrator.py), the producer executor                  *)
(* (producers/base.py) and the database executor (databases/base.py).      *)
(***************************************************************************)
EXTENDS Integers, Sequences, FiniteSets, TLC

(* ------------------------------ bounds --------------------------------- *)
\* threads that call the orchestrator concurrently
NThreads == 2
\* config.max_retries of the resource (validated > 0 by the config models)
MaxRetries == 2
\* how many times the resource's connect may raise in one behaviour
MaxFails == 3
\* how many times the resource may lose its connection in one behaviour
MaxDrops == 1
\* messages handed to enqueue_message in one behaviour
MaxMsgs == 2
\* queries handed to execute in one behaviour
MaxTasks == 2
\* config.max_workers of the database (validated > 0)
MaxWorkers == 1
\* threads that call the factories' get_instance concurrently
NCallers == 2
\* get_instance calls made in one behaviour
MaxCalls == 3
\* characters written to one log file in one behaviour
MaxFileLen == 3
\* config.buffer_rows of the agent (validated > 0; the default is 500)
BufferRows == 2
\* rotations of the log file in one behaviour
MaxRotations == 1
\* working data connections created in one behaviour
NWdc == 2
\* distinct non-empty results a query can return
NResults == 2
\* calls of _send_messages_to_producers in one behaviour
MaxPasses == 2
\* WorkingDataConnection objects built in one behaviour
MaxObjs == 2
\* activations of _connect_with_retry that the interpreter's recursion limit
\* lets one call stack by calling itself
MaxDepth == 2
\* lines of one batch, and data connections of an agent's configuration
MaxLines == 2
MaxConns == 2
\* data connections of a configuration
MaxRefs == 2
\* agents, the most path files an agent is configured with, and iterations of
\* the loop of one agent in one behaviour
NAgents == 2
MaxPathFiles == 1
MaxIters == 2
\* minutes the clock of the agent runs, and the largest expired_time_int
MaxTime == 2
MaxTtl == 1

Threads == 1 .. NThreads
NoThread == 0
\* saturation point of the connect-invocation counter
CallCap == MaxFails + NThreads + MaxDrops + 2

VARIABLES
    connected,      \* BaseOrchestrator._connected
    lock,           \* BaseOrchestrator._lock: the holder, or NoThread
    alive,          \* what the resource's is_connected() reports
    pc,             \* per thread: position inside ensure_connected / mark_disconnected
    attempt,        \* per thread: the loop variable of _connect_with_retry
    why,            \* per thread: what the running ensure_connected call has seen
    connectCalls,   \* history: invocations of _connect
    nFails,         \* history: invocations of _connect that raised
    connectors,     \* history: the threads that invoked _connect
    drops,          \* history: connection losses of the resource
    everCleared,    \* history: mark_disconnected has written the flag
    clearedPending, \* history: a clearing call happened and no ensure_connected began since
    obliged         \* per thread: the running ensure_connected is the first after a clearing call

orchVars == << connected, lock, alive, pc, attempt, why, connectCalls, nFails,
               connectors, drops, everCleared, clearedPending, obliged >>

VARIABLES
    queue,          \* BaseProducer._queue: the queued messages, oldest first
    unfinished,     \* BaseProducer._queue.unfinished_tasks
    stop_event,     \* BaseProducer._stop_event
    wpc,            \* position of the worker thread inside _worker
    cur,            \* the message the worker holds (local variable message), or 0
    retries,        \* per message: Message.retries
    closed,         \* BaseProducer.close() has been called
    stopPc,         \* position of the thread that calls stop()
    stopTimeout,    \* stop() was given a finite timeout
    nextId,         \* history: messages enqueued so far; they are numbered in enqueue order
    sendCount,      \* history: per message, the calls of _send
    requeues,       \* history: per message, the times the worker put it back
    delivered,      \* history: the messages in the order of their successful send
    finalErr,       \* history: the message whose failure the worker raised, or 0
    accepted,       \* history: messages enqueued on a started, not stopped producer
    enqAtStop       \* history: messages enqueued when stop() was called

prodVars == << queue, unfinished, stop_event, wpc, cur, retries, closed, stopPc,
               stopTimeout, nextId, sendCount, requeues, delivered, finalErr,
               accepted, enqAtStop >>

\* everything of the producer but the worker's position
prodRest == << queue, unfinished, stop_event, cur, retries, closed, stopPc,
               stopTimeout, nextId, sendCount, requeues, delivered, finalErr,
               accepted, enqAtStop >>

VARIABLES
    dbQueue,        \* BaseDatabase._queue: the queued tasks, oldest first
    dbUnfinished,   \* BaseDatabase._queue.unfinished_tasks
    dbStop,         \* BaseDatabase._stop_event
    dpc,            \* position of the dispatcher thread inside _dispatch
    tpc,            \* per task: where it is between execute() and its callback
    scTry,          \* per thread inside _safe_connect: the attempt it is at, or -1
    fut,            \* per task: QueryTask.future
    tRetries,       \* per task: QueryTask.retries
    dbConnected,    \* the driver's _connect has succeeded
    poolDown,       \* BaseDatabase._executor has been shut down
    shPc,           \* position of the thread that calls shutdown()
    dbNext,         \* history: tasks created so far
    queryFailed,    \* history: per task, _query raised for it
    enqAtShutdown   \* history: tasks created when shutdown() was called

dbVars == << dbQueue, dbUnfinished, dbStop, dpc, tpc, scTry, fut, tRetries,
             dbConnected, poolDown, shPc, dbNext, queryFailed,
             enqAtShutdown >>

VARIABLES
    instances,      \* per factory: _instances, key -> instance (0: no entry)
    factoryLock,    \* per factory: _lock, the caller holding it or NoThread
    configLoaded,   \* per factory: _config is not None
    fpc,            \* per caller: position inside get_instance / _create
    fcall,          \* per caller: the arguments of its get_instance call
    fnew,           \* per caller: the resource _create has constructed (0: none)
    fres,           \* per caller: the instance returned (0: none)
    built,          \* history, per factory and key: resources constructed
    attached,       \* history, per factory and key: orchestrators attached
    started,        \* history, per factory and key: start() calls that returned
    got,            \* history, per factory and key: instances returned to callers
    nCalls          \* history: get_instance calls made

facVars == << instances, factoryLock, configLoaded, fpc, fcall, fnew, fres,
              built, attached, started, got, nCalls >>

VARIABLES
    fileId,         \* identity (inode, device) of the file now at path_file.path
    fileContent,    \* its characters: "c" or the newline "n"
    oldPresent,     \* a predecessor (app.log.1) is in the directory
    oldId,          \* identity of the predecessor
    oldContent,     \* characters of the predecessor
    cursor,         \* path_file.cursor
    pfId,           \* path_file.id (0: None)
    curId,          \* _run_once: current_file_id
    apc,            \* position of the agent's worker thread inside _run_once
    linesRead,      \* history: every line handed to _data_connections_flow
    rotations       \* history: rotations so far

fileVars == << fileId, fileContent, oldPresent, oldId, oldContent, cursor, pfId,
               curId, apc, linesRead, rotations >>

VARIABLES
    nWdc,           \* working data connections built so far
    inSet,          \* per WDC: it is in self.working_data_connections
    expiry,         \* per WDC: expired_time, in minutes
    now,            \* datetime.now(), in minutes
    hasDb,          \* per WDC: database_name is set
    result,         \* per WDC: data_dict_result (0: None)
    isUpdated,      \* per WDC: is_updated ("unset": no such attribute yet)
    inProgress,     \* per WDC: query_in_progress ("unset": no such attribute yet)
    submitted,      \* history, per WDC: queries handed to execute()
    sends,          \* history: << WDC, result >> handed to a producer
    nPasses,        \* history: calls of _send_messages_to_producers
    fresh,          \* history, per WDC: _on_done has stored a result that
                    \* differs from the one before, no pass has run since
    failed,         \* history, per WDC: _on_done was called with a future
                    \* that holds an exception
    lastPass        \* history: datetime.now() at the latest call of
                    \* _data_connections_execute_queries, -1 before the first

wdcVars == << nWdc, inSet, expiry, now, hasDb, result, isUpdated,
              inProgress, submitted, sends,
              nPasses, fresh, failed, lastPass >>

VARIABLES
    aPaths,         \* per agent: len(self.config.path_files)
    agentPc,        \* per agent: where its worker thread is
    aStop,          \* per agent: self._stop_event
    astopPc,        \* per agent: where the caller of stop() is
    iters,          \* history, per agent: iterations of the loop begun
    itersAtStop     \* history, per agent: iters when stop() set the event

loopVars == << aPaths, agentPc, aStop, astopPc, iters, itersAtStop >>

VARIABLES
    cfgPaths,       \* the names of the path_files of the configuration validated
    cfgRefs,        \* source_ref.path_file_name of its data connections, in
                    \* order ("none": the data connection has no source_ref)
    cfgOutcome      \* what the validation did: "valid" or "ValueError"

cfgVars == << cfgPaths, cfgRefs, cfgOutcome >>

VARIABLES
    status,         \* WorkingDataConnection.status
    expired_time,   \* WorkingDataConnection.expired_time in minutes, -1: None
    queryResult,    \* list_data_dict_query_result (0: None)
    dataNow,        \* the reading of datetime.now(), in minutes
    wdcObj,         \* history: WorkingDataConnection objects built so far
    forcedAt,       \* history: datetime.now() of the update_expired_time(0) in
                    \* force, -1 when the expiry was set otherwise
    checkedAt,      \* history: datetime.now() of the latest check_expired_time
                    \* since the expiry was last set, -1 when there was none
    lastDone        \* history: the outcome of the future that on_query_done was
                    \* last called with since set_query_running_status

statVars == << status, expired_time, queryResult, dataNow, wdcObj, forcedAt,
              checkedAt, lastDone >>

VARIABLES
    mFile,          \* path_file.name of the latest _data_connections_match_regex call
    mLines,         \* its lines
    mConns,         \* the data connections of the producer connections, in order
    mOut            \* the list it returned

matchVars == << mFile, mLines, mConns, mOut >>

VARIABLES
    depth           \* the activations of _connect_with_retry that the running
                    \* call has stacked by calling itself (line 113)

recVars == << depth >>

\* the state of everything but the orchestrator, the producer and the database
\* the state of the agents' sections
otherRest == << facVars, fileVars, wdcVars, loopVars, cfgVars, statVars,
               matchVars >>

otherVars == << otherRest, recVars >>

vars == << orchVars, prodVars, dbVars, otherVars >>

Tasks == 1 .. MaxTasks
\* the dispatcher thread, among the threads that run _safe_connect
Dispatcher == 0

Msgs == 1 .. MaxMsgs
\* the thread of the orchestrator's callers that is the producer's worker
W == 1

\* positions of a thread inside ensure_connected
InEnsure == { "ec_lock", "ec_locked", "cwr_connect", "cwr_set", "cwr_sleep", "cwr_cooldown" }
\* positions inside the reconnect sequence _connect_with_retry
InReconnect == { "cwr_connect", "cwr_set", "cwr_sleep", "cwr_cooldown" }

Bump(n) == IF n < CallCap THEN n + 1 ELSE n

(* --------------------------- BaseOrchestrator --------------------------- *)

\* __init__: not connected, lock free.
OrchInit ==
    /\ connected = FALSE
    /\ lock = NoThread
    /\ alive = FALSE
    /\ pc = [t \in Threads |-> "idle"]
    /\ attempt = [t \in Threads |-> 0]
    /\ why = [t \in Threads |-> "none"]
    /\ connectCalls = 0
    /\ nFails = 0
    /\ connectors = {}
    /\ drops = 0
    /\ everCleared = FALSE
    /\ clearedPending = FALSE
    /\ obliged = [t \in Threads |-> FALSE]

\* ensure_connected, line 71: the unlocked read of the flag (fast path).
MutFastPathInverted(t) ==
    /\ pc[t] = "idle"
    /\ IF ~connected
          THEN /\ pc' = [pc EXCEPT ![t] = "ec_ret"]
               /\ why' = [why EXCEPT ![t] = "none"]
          ELSE /\ pc' = [pc EXCEPT ![t] = "ec_lock"]
               /\ why' = [why EXCEPT ![t] = "none"]
    /\ obliged' = [obliged EXCEPT ![t] = clearedPending]
    /\ clearedPending' = FALSE
    /\ UNCHANGED << connected, lock, alive, attempt, connectCalls, nFails,
                    connectors, drops, everCleared >>

ensure_connected(t) ==
    /\ pc[t] = "idle"
    /\ IF connected
          THEN /\ pc' = [pc EXCEPT ![t] = "ec_ret"]
               /\ why' = [why EXCEPT ![t] = "flag"]
          ELSE /\ pc' = [pc EXCEPT ![t] = "ec_lock"]
               /\ why' = [why EXCEPT ![t] = "none"]
    /\ obliged' = [obliged EXCEPT ![t] = clearedPending]
    /\ clearedPending' = FALSE
    /\ UNCHANGED << connected, lock, alive, attempt, connectCalls, nFails,
                    connectors, drops, everCleared >>

\* line 74: with self._lock (blocks while another thread holds it).
MutAcquireNoWait(t) ==
    /\ pc[t] = "ec_lock"
    /\ lock' = t
    /\ pc' = [pc EXCEPT ![t] = "ec_locked"]
    /\ UNCHANGED << connected, alive, attempt, why, connectCalls, nFails,
                    connectors, drops, everCleared, clearedPending, obliged >>

AcquireLock(t) ==
    /\ pc[t] = "ec_lock"
    /\ lock = NoThread
    /\ lock' = t
    /\ pc' = [pc EXCEPT ![t] = "ec_locked"]
    /\ UNCHANGED << connected, alive, attempt, why, connectCalls, nFails,
                    connectors, drops, everCleared, clearedPending, obliged >>

\* lines 75-79: the second read of the flag, under the lock; the reconnect
\* sequence starts when it is still unset.
MutNoSecondCheck(t) ==
    /\ pc[t] = "ec_locked"
    /\ pc' = [pc EXCEPT ![t] = "cwr_connect"]
    /\ attempt' = [attempt EXCEPT ![t] = 1]
    /\ UNCHANGED << connected, lock, alive, why, connectCalls, nFails,
                    connectors, drops, everCleared, clearedPending, obliged >>

LockedCheck(t) ==
    /\ pc[t] = "ec_locked"
    /\ IF connected
          THEN /\ pc' = [pc EXCEPT ![t] = "ec_ret"]
               /\ why' = [why EXCEPT ![t] = "flagL"]
               /\ lock' = NoThread
               /\ UNCHANGED attempt
          ELSE /\ pc' = [pc EXCEPT ![t] = "cwr_connect"]
               /\ attempt' = [attempt EXCEPT ![t] = 1]
               /\ UNCHANGED << why, lock >>
    /\ UNCHANGED << connected, alive, connectCalls, nFails,
                    connectors, drops, everCleared, clearedPending, obliged >>

\* _connect_with_retry, line 101: self._connect() returns.
ConnectOk(t) ==
    /\ pc[t] = "cwr_connect"
    /\ alive' = TRUE
    /\ pc' = [pc EXCEPT ![t] = "cwr_set"]
    /\ why' = [why EXCEPT ![t] = "connect"]
    /\ connectCalls' = Bump(connectCalls)
    /\ connectors' = connectors \cup {t}
    /\ UNCHANGED << connected, lock, attempt, nFails, drops, everCleared,
                    clearedPending, obliged >>

\* line 101 raises; lines 105-109: the exception is logged and the thread
\* sleeps retry_delay.
ConnectFail(t) ==
    /\ pc[t] = "cwr_connect"
    /\ nFails < MaxFails
    /\ nFails' = nFails + 1
    /\ pc' = [pc EXCEPT ![t] = "cwr_sleep"]
    /\ connectCalls' = Bump(connectCalls)
    /\ connectors' = connectors \cup {t}
    /\ UNCHANGED << connected, lock, alive, attempt, why, drops, everCleared,
                    clearedPending, obliged >>

\* lines 102-104: the flag is set and the call returns, releasing the lock.
MutSetFlagKeepLock(t) ==
    /\ pc[t] = "cwr_set"
    /\ connected' = TRUE
    /\ pc' = [pc EXCEPT ![t] = "ec_ret"]
    /\ attempt' = [attempt EXCEPT ![t] = 0]
    /\ UNCHANGED << lock, alive, why, connectCalls, nFails, connectors, drops,
                    everCleared, clearedPending, obliged >>

SetFlag(t) ==
    /\ pc[t] = "cwr_set"
    /\ connected' = TRUE
    /\ lock' = NoThread
    /\ pc' = [pc EXCEPT ![t] = "ec_ret"]
    /\ attempt' = [attempt EXCEPT ![t] = 0]
    /\ UNCHANGED << alive, why, connectCalls, nFails, connectors, drops,
                    everCleared, clearedPending, obliged >>

\* line 99: the next value of range(1, max_retries + 1) after the sleep, or
\* lines 111-112 when the range is exhausted.
MutExhaustedReturns(t) ==
    /\ pc[t] = "cwr_sleep"
    /\ IF attempt[t] < MaxRetries
          THEN /\ attempt' = [attempt EXCEPT ![t] = attempt[t] + 1]
               /\ pc' = [pc EXCEPT ![t] = "cwr_connect"]
               /\ UNCHANGED lock
          ELSE /\ attempt' = [attempt EXCEPT ![t] = 0]
               /\ pc' = [pc EXCEPT ![t] = "ec_ret"]
               /\ lock' = NoThread
    /\ UNCHANGED << connected, alive, why, connectCalls, nFails, connectors,
                    drops, everCleared, clearedPending, obliged >>

RetrySleep(t) ==
    /\ pc[t] = "cwr_sleep"
    /\ IF attempt[t] < MaxRetries
          THEN /\ attempt' = [attempt EXCEPT ![t] = attempt[t] + 1]
               /\ pc' = [pc EXCEPT ![t] = "cwr_connect"]
          ELSE /\ attempt' = [attempt EXCEPT ![t] = 0]
               /\ pc' = [pc EXCEPT ![t] = "cwr_cooldown"]
    /\ UNCHANGED << connected, lock, alive, why, connectCalls, nFails, connectors,
                    drops, everCleared, clearedPending, obliged >>

\* after the cool-down the thread makes one more attempt of the old round
MutCoolDownResumes(t) ==
    /\ pc[t] = "cwr_cooldown"
    /\ attempt' = [attempt EXCEPT ![t] = MaxRetries]
    /\ pc' = [pc EXCEPT ![t] = "cwr_connect"]
    /\ UNCHANGED << connected, lock, alive, why, connectCalls, nFails, connectors,
                    drops, everCleared, clearedPending, obliged >>

\* lines 112-113: after the cool-down the method calls itself; the new
\* activation starts its own range at 1, still under the caller's lock.
CoolDown(t) ==
    /\ pc[t] = "cwr_cooldown"
    /\ attempt' = [attempt EXCEPT ![t] = 1]
    /\ pc' = [pc EXCEPT ![t] = "cwr_connect"]
    /\ UNCHANGED << connected, lock, alive, why, connectCalls, nFails, connectors,
                    drops, everCleared, clearedPending, obliged >>

\* mark_disconnected, line 132: the probe of the resource; lines 133-134
\* when it reports alive.
MutProbeIgnored(t) ==
    /\ pc[t] = "idle"
    /\ pc' = [pc EXCEPT ![t] = "md_clear"]
    /\ UNCHANGED << connected, lock, alive, attempt, why, connectCalls, nFails,
                    connectors, drops, everCleared, clearedPending, obliged >>

mark_disconnected(t) ==
    /\ pc[t] = "idle"
    /\ pc' = [pc EXCEPT ![t] = IF alive THEN "md_ret" ELSE "md_clear"]
    /\ UNCHANGED << connected, lock, alive, attempt, why, connectCalls, nFails,
                    connectors, drops, everCleared, clearedPending, obliged >>

\* lines 136-137: the flag is cleared, without the lock.
ClearFlag(t) ==
    /\ pc[t] = "md_clear"
    /\ connected' = FALSE
    /\ everCleared' = TRUE
    /\ clearedPending' = TRUE
    /\ pc' = [pc EXCEPT ![t] = "md_ret"]
    /\ UNCHANGED << lock, alive, attempt, why, connectCalls, nFails,
                    connectors, drops, obliged >>

\* The resource loses its connection (the broker or the database goes away).
ResourceDrop ==
    /\ alive
    /\ drops < MaxDrops
    /\ alive' = FALSE
    /\ drops' = drops + 1
    /\ UNCHANGED << connected, lock, pc, attempt, why, connectCalls, nFails,
                    connectors, everCleared, clearedPending, obliged >>

\* The steps a thread takes inside a call of the orchestrator.
OrchStep(t) ==
    \/ AcquireLock(t)
    \/ LockedCheck(t)
    \/ ConnectOk(t)
    \/ ConnectFail(t)
    \/ SetFlag(t)
    \/ RetrySleep(t)
    \/ CoolDown(t)
    \/ ClearFlag(t)

\* A caller gets control back from ensure_connected or mark_disconnected.
CallReturn(t) ==
    /\ pc[t] \in { "ec_ret", "md_ret" }
    /\ pc' = [pc EXCEPT ![t] = "idle"]
    /\ why' = [why EXCEPT ![t] = "none"]
    /\ obliged' = [obliged EXCEPT ![t] = FALSE]
    /\ UNCHANGED << connected, lock, alive, attempt, connectCalls, nFails,
                    connectors, drops, everCleared, clearedPending >>

(* ----------------------------- BaseProducer ----------------------------- *)

\* __init__: empty queue, stop event clear, worker thread created, not started.
ProdInit ==
    /\ queue = << >>
    /\ unfinished = 0
    /\ stop_event = FALSE
    /\ wpc = "init"
    /\ cur = 0
    /\ retries = [m \in Msgs |-> 0]
    /\ closed = FALSE
    /\ stopPc = "none"
    /\ stopTimeout = FALSE
    /\ nextId = 0
    /\ sendCount = [m \in Msgs |-> 0]
    /\ requeues = [m \in Msgs |-> 0]
    /\ delivered = << >>
    /\ finalErr = 0
    /\ accepted = {}
    /\ enqAtStop = 0

\* start(): the worker thread begins _worker.
start ==
    /\ wpc = "init"
    /\ wpc' = "ec0"
    /\ UNCHANGED << orchVars, prodRest, dbVars, otherVars >>

\* enqueue_message: a new Message (retries = 0) is put on the queue.
enqueue_message ==
    /\ nextId < MaxMsgs
    /\ nextId' = nextId + 1
    /\ queue' = Append(queue, nextId + 1)
    /\ unfinished' = unfinished + 1
    /\ accepted' = IF wpc # "init" /\ ~stop_event
                      THEN accepted \cup { nextId + 1 } ELSE accepted
    /\ UNCHANGED << dbVars, otherVars, orchVars, stop_event, wpc, cur, retries, closed, stopPc,
                    stopTimeout, sendCount, requeues, delivered, finalErr, enqAtStop >>

\* _worker, line 226: ensure_connected before the loop.
WorkerEnsureFirst ==
    /\ wpc = "ec0"
    /\ ensure_connected(W)
    /\ wpc' = "ec0_wait"
    /\ UNCHANGED << prodRest, dbVars, otherVars >>

WorkerEnsureFirstRet ==
    /\ wpc = "ec0_wait"
    /\ pc[W] = "ec_ret"
    /\ CallReturn(W)
    /\ wpc' = "loop"
    /\ UNCHANGED << prodRest, dbVars, otherVars >>

\* the worker is inside a call of the orchestrator
WorkerOrchStep ==
    /\ wpc \in { "ec0_wait", "ec1_wait", "md_wait" }
    /\ OrchStep(W)
    /\ UNCHANGED << prodVars, dbVars, otherVars >>

\* line 228: while not self._stop_event.is_set()
WorkerLoop ==
    /\ wpc = "loop"
    /\ wpc' = IF stop_event THEN "exited" ELSE "get"
    /\ UNCHANGED << orchVars, prodRest, dbVars, otherVars >>

\* lines 229-232: queue.get(timeout=0.5); Empty goes back to the loop test.
MutGetNewest ==
    /\ wpc = "get"
    /\ IF queue # << >>
          THEN /\ cur' = queue[Len(queue)]
               /\ queue' = SubSeq(queue, 1, Len(queue) - 1)
               /\ wpc' = "ec1"
          ELSE /\ wpc' = "loop"
               /\ UNCHANGED << cur, queue >>
    /\ UNCHANGED << dbVars, otherVars, orchVars, unfinished, stop_event, retries, closed, stopPc,
                    stopTimeout, nextId, sendCount, requeues, delivered, finalErr,
                    accepted, enqAtStop >>

WorkerGet ==
    /\ wpc = "get"
    /\ IF queue # << >>
          THEN /\ cur' = Head(queue)
               /\ queue' = Tail(queue)
               /\ wpc' = "ec1"
          ELSE /\ wpc' = "loop"
               /\ UNCHANGED << cur, queue >>
    /\ UNCHANGED << dbVars, otherVars, orchVars, unfinished, stop_event, retries, closed, stopPc,
                    stopTimeout, nextId, sendCount, requeues, delivered, finalErr,
                    accepted, enqAtStop >>

\* line 234: ensure_connected before the send.
WorkerEnsure ==
    /\ wpc = "ec1"
    /\ ensure_connected(W)
    /\ wpc' = "ec1_wait"
    /\ UNCHANGED << prodRest, dbVars, otherVars >>

WorkerEnsureRet ==
    /\ wpc = "ec1_wait"
    /\ pc[W] = "ec_ret"
    /\ CallReturn(W)
    /\ wpc' = "send"
    /\ UNCHANGED << prodRest, dbVars, otherVars >>

\* lines 235-236: _send returns.
SendOk ==
    /\ wpc = "send"
    /\ sendCount' = [sendCount EXCEPT ![cur] = @ + 1]
    /\ delivered' = Append(delivered, cur)
    /\ wpc' = "task_done"
    /\ UNCHANGED << dbVars, otherVars, orchVars, queue, unfinished, stop_event, cur, retries, closed,
                    stopPc, stopTimeout, nextId, requeues, finalErr, accepted,
                    enqAtStop >>

\* the failed send goes on to the retry decision without mark_disconnected
MutSendFailNoMark ==
    /\ wpc = "send"
    /\ sendCount' = [sendCount EXCEPT ![cur] = @ + 1]
    /\ wpc' = "decide"
    /\ UNCHANGED << dbVars, otherVars, orchVars, queue, unfinished, stop_event, cur, retries, closed,
                    stopPc, stopTimeout, nextId, requeues, delivered, finalErr,
                    accepted, enqAtStop >>

\* line 235 raises; lines 237-238.
SendFail ==
    /\ wpc = "send"
    /\ sendCount' = [sendCount EXCEPT ![cur] = @ + 1]
    /\ wpc' = "md"
    /\ UNCHANGED << dbVars, otherVars, orchVars, queue, unfinished, stop_event, cur, retries, closed,
                    stopPc, stopTimeout, nextId, requeues, delivered, finalErr,
                    accepted, enqAtStop >>

\* line 239: mark_disconnected after the failed send.
WorkerMark ==
    /\ wpc = "md"
    /\ mark_disconnected(W)
    /\ wpc' = "md_wait"
    /\ UNCHANGED << prodRest, dbVars, otherVars >>

WorkerMarkRet ==
    /\ wpc = "md_wait"
    /\ pc[W] = "md_ret"
    /\ CallReturn(W)
    /\ wpc' = "decide"
    /\ UNCHANGED << prodRest, dbVars, otherVars >>

\* lines 241-251: retry while retries < max_retries, else raise.
MutRetryOneMore ==
    /\ wpc = "decide"
    /\ IF retries[cur] <= MaxRetries
          THEN /\ retries' = [retries EXCEPT ![cur] = @ + 1]
               /\ wpc' = "backoff"
          ELSE /\ wpc' = "raise"
               /\ UNCHANGED retries
    /\ UNCHANGED << dbVars, otherVars, orchVars, queue, unfinished, stop_event, cur, closed, stopPc,
                    stopTimeout, nextId, sendCount, requeues, delivered, finalErr,
                    accepted, enqAtStop >>

WorkerDecide ==
    /\ wpc = "decide"
    /\ IF retries[cur] < MaxRetries
          THEN /\ retries' = [retries EXCEPT ![cur] = @ + 1]
               /\ wpc' = "backoff"
          ELSE /\ wpc' = "raise"
               /\ UNCHANGED retries
    /\ UNCHANGED << dbVars, otherVars, orchVars, queue, unfinished, stop_event, cur, closed, stopPc,
                    stopTimeout, nextId, sendCount, requeues, delivered, finalErr,
                    accepted, enqAtStop >>

\* lines 247-248: after the backoff sleep the message is put back.
WorkerRequeue ==
    /\ wpc = "backoff"
    /\ queue' = Append(queue, cur)
    /\ unfinished' = unfinished + 1
    /\ requeues' = [requeues EXCEPT ![cur] = @ + 1]
    /\ wpc' = "task_done"
    /\ UNCHANGED << dbVars, otherVars, orchVars, stop_event, cur, retries, closed, stopPc, stopTimeout,
                    nextId, sendCount, delivered, finalErr, accepted, enqAtStop >>

\* line 253: finally task_done(), then the next iteration.
WorkerTaskDone ==
    /\ wpc = "task_done"
    /\ unfinished' = unfinished - 1
    /\ cur' = 0
    /\ wpc' = "loop"
    /\ UNCHANGED << dbVars, otherVars, orchVars, queue, stop_event, retries, closed, stopPc, stopTimeout,
                    nextId, sendCount, requeues, delivered, finalErr, accepted,
                    enqAtStop >>

\* the final failure is logged and the loop goes on
MutRaiseSwallowed ==
    /\ wpc = "raise"
    /\ unfinished' = unfinished - 1
    /\ finalErr' = cur
    /\ cur' = 0
    /\ wpc' = "loop"
    /\ UNCHANGED << dbVars, otherVars, orchVars, queue, stop_event, retries, closed, stopPc, stopTimeout,
                    nextId, sendCount, requeues, delivered, accepted, enqAtStop >>

\* lines 250-253: the exception leaves _worker (after the finally clause) and
\* ends the thread.
WorkerRaise ==
    /\ wpc = "raise"
    /\ unfinished' = unfinished - 1
    /\ finalErr' = cur
    /\ cur' = 0
    /\ wpc' = "dead"
    /\ UNCHANGED << dbVars, otherVars, orchVars, queue, stop_event, retries, closed, stopPc, stopTimeout,
                    nextId, sendCount, requeues, delivered, accepted, enqAtStop >>

\* stop(timeout), line 137: the stop event is set.
stop ==
    /\ stopPc = "none"
    /\ wpc # "init"
    /\ stop_event' = TRUE
    /\ \E finite \in BOOLEAN : stopTimeout' = finite
    /\ enqAtStop' = nextId
    /\ stopPc' = "join"
    /\ UNCHANGED << dbVars, otherVars, orchVars, queue, unfinished, wpc, cur, retries, closed, nextId,
                    sendCount, requeues, delivered, finalErr, accepted >>

\* line 138: join returns when the worker has ended, or when a finite timeout
\* has run out.
StopJoin ==
    /\ stopPc = "join"
    /\ wpc \in { "exited", "dead" } \/ stopTimeout
    /\ stopPc' = "close"
    /\ UNCHANGED << dbVars, otherVars, orchVars, queue, unfinished, stop_event, wpc, cur, retries, closed,
                    stopTimeout, nextId, sendCount, requeues, delivered, finalErr,
                    accepted, enqAtStop >>

\* lines 139-140: close(), then stop() returns.
StopClose ==
    /\ stopPc = "close"
    /\ closed' = TRUE
    /\ alive' = FALSE
    /\ stopPc' = "returned"
    /\ UNCHANGED << dbVars, otherVars, connected, lock, pc, attempt, why, connectCalls, nFails,
                    connectors, drops, everCleared, clearedPending, obliged,
                    queue, unfinished, stop_event, wpc, cur, retries, stopTimeout,
                    nextId, sendCount, requeues, delivered, finalErr, accepted,
                    enqAtStop >>

\* the steps of the worker thread
WorkerNext ==
    \/ WorkerEnsureFirst
    \/ WorkerEnsureFirstRet
    \/ WorkerOrchStep
    \/ WorkerLoop
    \/ WorkerGet
    \/ WorkerEnsure
    \/ WorkerEnsureRet
    \/ SendOk
    \/ SendFail
    \/ WorkerMark
    \/ WorkerMarkRet
    \/ WorkerDecide
    \/ WorkerRequeue
    \/ WorkerTaskDone
    \/ WorkerRaise

(* ----------------------------- BaseDatabase ----------------------------- *)

\* __init__: empty queue, executor created, dispatcher thread started.
DbInit ==
    /\ dbQueue = << >>
    /\ dbUnfinished = 0
    /\ dbStop = FALSE
    /\ dpc = "connect"
    /\ tpc = [k \in Tasks |-> "new"]
    /\ scTry = [e \in {Dispatcher} \cup Tasks |-> IF e = Dispatcher THEN 0 ELSE -1]
    /\ fut = [k \in Tasks |-> "pending"]
    /\ tRetries = [k \in Tasks |-> 0]
    /\ dbConnected = FALSE
    /\ poolDown = FALSE
    /\ shPc = "none"
    /\ dbNext = 0
    /\ queryFailed = [k \in Tasks |-> FALSE]
    /\ enqAtShutdown = 0

\* tasks a worker of the pool is running (query, reconnect or callback)
Running == { k \in Tasks : tpc[k] \in { "query", "reconnect", "cb_rows", "cb_none" } }

\* execute: a new QueryTask (retries = 0, pending future) is put on the queue.
execute ==
    /\ dbNext < MaxTasks
    /\ dbNext' = dbNext + 1
    /\ dbQueue' = Append(dbQueue, dbNext + 1)
    /\ dbUnfinished' = dbUnfinished + 1
    /\ tpc' = [tpc EXCEPT ![dbNext + 1] = "queued"]
    /\ UNCHANGED << otherVars, orchVars, prodVars, dbStop, dpc, scTry, fut, tRetries,
                    dbConnected, poolDown, shPc, queryFailed,
                    enqAtShutdown >>

\* where the thread goes when _safe_connect returns: the dispatcher to its
\* loop (lines 441, 446), a worker to the end of _safe_query (line 486),
\* which then returns None.
SafeConnectReturn(e) ==
    /\ scTry' = [scTry EXCEPT ![e] = -1]
    /\ IF e = Dispatcher
          THEN dpc' = "loop" /\ UNCHANGED tpc
          ELSE tpc' = [tpc EXCEPT ![e] = "cb_none"] /\ UNCHANGED dpc

\* _safe_connect, lines 498 and 503: _connect returns.
SafeConnectOk(e) ==
    /\ scTry[e] >= 0
    /\ dbConnected' = TRUE
    /\ SafeConnectReturn(e)
    /\ UNCHANGED << otherVars, orchVars, prodVars, dbQueue, dbUnfinished, dbStop, fut,
                    tRetries, poolDown, shPc, dbNext, queryFailed,
                    enqAtShutdown >>

\* lines 499-511: _connect raises; it is tried again max_retries times, and
\* after the last failure (and the 60 s sleep) the method returns normally.
SafeConnectFail(e) ==
    /\ scTry[e] >= 0
    /\ IF scTry[e] < MaxRetries
          THEN /\ scTry' = [scTry EXCEPT ![e] = @ + 1]
               /\ UNCHANGED << dpc, tpc >>
          ELSE SafeConnectReturn(e)
    /\ UNCHANGED << otherVars, orchVars, prodVars, dbQueue, dbUnfinished, dbStop, fut,
                    tRetries, dbConnected, poolDown, shPc, dbNext, queryFailed,
                    enqAtShutdown >>

\* _dispatch, line 446: while not self._stop_event.is_set()
DispatchLoop ==
    /\ dpc = "loop"
    /\ dpc' = IF dbStop THEN "exited" ELSE "get"
    /\ UNCHANGED << otherVars, orchVars, prodVars, dbQueue, dbUnfinished, dbStop, tpc, scTry,
                    fut, tRetries, dbConnected, poolDown, shPc, dbNext, queryFailed,
                    enqAtShutdown >>

\* lines 447-464: queue.get(timeout=0.5); the task is submitted to the
\* executor with _callback attached. submit raises once the executor has
\* been shut down, which ends the dispatcher thread.
DispatchGet ==
    /\ dpc = "get"
    /\ IF dbQueue = << >>
          THEN /\ dpc' = "loop"
               /\ UNCHANGED << dbQueue, tpc >>
          ELSE /\ dbQueue' = Tail(dbQueue)
               /\ IF poolDown
                     THEN /\ dpc' = "dead"
                          /\ tpc' = [tpc EXCEPT ![Head(dbQueue)] = "lost"]
                     ELSE /\ dpc' = "loop"
                          /\ tpc' = [tpc EXCEPT ![Head(dbQueue)] = "pool"]
    /\ UNCHANGED << otherVars, orchVars, prodVars, dbUnfinished, dbStop, scTry, fut, tRetries,
                    dbConnected, poolDown, shPc, dbNext, queryFailed,
                    enqAtShutdown >>

\* a free worker of the pool starts _safe_query on a submitted task
WorkerTake(k) ==
    /\ tpc[k] = "pool"
    /\ Cardinality(Running) < MaxWorkers
    /\ tpc' = [tpc EXCEPT ![k] = "query"]
    /\ UNCHANGED << otherVars, orchVars, prodVars, dbQueue, dbUnfinished, dbStop, dpc, scTry,
                    fut, tRetries, dbConnected, poolDown, shPc, dbNext, queryFailed,
                    enqAtShutdown >>

\* _safe_query, lines 481-483: _query returns the rows.
QueryOk(k) ==
    /\ tpc[k] = "query"
    /\ tpc' = [tpc EXCEPT ![k] = "cb_rows"]
    /\ UNCHANGED << otherVars, orchVars, prodVars, dbQueue, dbUnfinished, dbStop, dpc, scTry,
                    fut, tRetries, dbConnected, poolDown, shPc, dbNext, queryFailed,
                    enqAtShutdown >>

\* lines 484-486: _query raises; the error is logged and _safe_connect runs.
QueryFail(k) ==
    /\ tpc[k] = "query"
    /\ tpc' = [tpc EXCEPT ![k] = "reconnect"]
    /\ scTry' = [scTry EXCEPT ![k] = 0]
    /\ queryFailed' = [queryFailed EXCEPT ![k] = TRUE]
    /\ UNCHANGED << otherVars, orchVars, prodVars, dbQueue, dbUnfinished, dbStop, dpc,
                    fut, tRetries, dbConnected, poolDown, shPc, dbNext,
                    enqAtShutdown >>

\* _callback, lines 454-462: f.result() is what _safe_query returned, the
\* rows or None; it is set as the task's result, then task_done().
Callback(k) ==
    /\ tpc[k] \in { "cb_rows", "cb_none" }
    /\ fut' = [fut EXCEPT ![k] = IF tpc[k] = "cb_rows" THEN "rows" ELSE "none"]
    /\ dbUnfinished' = dbUnfinished - 1
    /\ tpc' = [tpc EXCEPT ![k] = "done"]
    /\ UNCHANGED << otherVars, orchVars, prodVars, dbQueue, dbStop, dpc, scTry, tRetries,
                    dbConnected, poolDown, shPc, dbNext, queryFailed,
                    enqAtShutdown >>

\* shutdown, line 392: the stop event is set.
shutdown ==
    /\ shPc = "none"
    /\ dbStop' = TRUE
    /\ shPc' = "join"
    /\ UNCHANGED << otherVars, orchVars, prodVars, dbQueue, dbUnfinished, dpc, tpc, scTry,
                    fut, tRetries, dbConnected, poolDown, dbNext, queryFailed >>
    /\ enqAtShutdown' = dbNext

\* line 393: join(timeout=5) returns, the dispatcher ended or not.
ShutdownJoin ==
    /\ shPc = "join"
    /\ shPc' = "queue_join"
    /\ UNCHANGED << otherVars, orchVars, prodVars, dbQueue, dbUnfinished, dbStop, dpc, tpc,
                    scTry, fut, tRetries, dbConnected, poolDown, dbNext, queryFailed,
                    enqAtShutdown >>

\* line 395: queue.join() returns when unfinished_tasks is 0.
ShutdownQueueJoin ==
    /\ shPc = "queue_join"
    /\ dbUnfinished = 0
    /\ shPc' = "pool_shutdown"
    /\ UNCHANGED << otherVars, orchVars, prodVars, dbQueue, dbUnfinished, dbStop, dpc, tpc,
                    scTry, fut, tRetries, dbConnected, poolDown, dbNext, queryFailed,
                    enqAtShutdown >>

\* line 396: executor.shutdown(wait=True) refuses new submissions ...
ShutdownPool ==
    /\ shPc = "pool_shutdown"
    /\ poolDown' = TRUE
    /\ shPc' = "pool_wait"
    /\ UNCHANGED << otherVars, orchVars, prodVars, dbQueue, dbUnfinished, dbStop, dpc, tpc,
                    scTry, fut, tRetries, dbConnected, dbNext, queryFailed,
                    enqAtShutdown >>

\* ... and returns when no submitted task is left; line 398.
ShutdownReturn ==
    /\ shPc = "pool_wait"
    /\ \A k \in Tasks : tpc[k] # "pool" /\ k \notin Running
    /\ shPc' = "returned"
    /\ UNCHANGED << otherVars, orchVars, prodVars, dbQueue, dbUnfinished, dbStop, dpc, tpc,
                    scTry, fut, tRetries, dbConnected, poolDown, dbNext, queryFailed,
                    enqAtShutdown >>

(* ------------------- DatabaseFactory, ProducerFactory ------------------- *)

Callers == 1 .. NCallers

\* the two factory classes, each with its own _instances, _lock and _config
Factories == { "database", "producer" }

\* (type, name) keys: "ok" is configured and registered, with the topic
\* allowlist {"a"}; "open" is configured and registered without allowlist;
\* "noconfig" is absent from the YAML file; "notype" is configured, but its
\* type has no registry entry.
Keys == { "ok", "open", "noconfig", "notype" }

Topics == { "a", "b" }

\* next(... for p in cls._config if type and name match)
HasConfig(k) == k # "noconfig"

\* REGISTRY.get(type)
Registered(k) == k # "notype"

\* producer_config.topics
Allowlist(k) == IF k = "ok" THEN { "a" } ELSE {}

\* BaseProducer defines start(); BaseDatabase has no such method (its
\* dispatcher is started by __init__), so database_ref.start() raises
\* AttributeError.
HasStart(f) == f = "producer"

NoCall == [f |-> "none", k |-> "none", topic |-> "none"]

FacInit ==
    /\ instances = [f \in Factories |-> [k \in Keys |-> 0]]
    /\ factoryLock = [f \in Factories |-> NoThread]
    /\ configLoaded = [f \in Factories |-> FALSE]
    /\ fpc = [c \in Callers |-> "idle"]
    /\ fcall = [c \in Callers |-> NoCall]
    /\ fnew = [c \in Callers |-> 0]
    /\ fres = [c \in Callers |-> 0]
    /\ built = [f \in Factories |-> [k \in Keys |-> 0]]
    /\ attached = [f \in Factories |-> [k \in Keys |-> 0]]
    /\ started = [f \in Factories |-> [k \in Keys |-> 0]]
    /\ got = [f \in Factories |-> [k \in Keys |-> {}]]
    /\ nCalls = 0

\* the exception leaves _create and get_instance: the with block releases
\* the lock, nothing is stored in _instances.
Raise(c) ==
    /\ fpc' = [fpc EXCEPT ![c] = "raised"]
    /\ factoryLock' = [factoryLock EXCEPT ![fcall[c].f] = NoThread]

\* get_instance returns cls._instances[key], which is inst
ReturnInstance(c, inst) ==
    /\ fpc' = [fpc EXCEPT ![c] = "returned"]
    /\ fres' = [fres EXCEPT ![c] = inst]
    /\ got' = [got EXCEPT ![fcall[c].f][fcall[c].k] = @ \cup { inst }]


\* get_instance, first lines: the key is looked up in _instances without the
\* lock; a cached instance is returned at once, whatever the topic.
get_instance(c) ==
    /\ fpc[c] = "idle"
    /\ nCalls < MaxCalls
    /\ nCalls' = nCalls + 1
    /\ \E f \in Factories, k \in Keys, tp \in Topics :
          /\ f = "database" => tp = "a"
          /\ fcall' = [fcall EXCEPT ![c] = [f |-> f, k |-> k, topic |-> tp]]
          /\ IF instances[f][k] # 0
                THEN /\ fpc' = [fpc EXCEPT ![c] = "returned"]
                     /\ fres' = [fres EXCEPT ![c] = instances[f][k]]
                     /\ got' = [got EXCEPT ![f][k] = @ \cup { instances[f][k] }]
                ELSE /\ fpc' = [fpc EXCEPT ![c] = "lock"]
                     /\ UNCHANGED << fres, got >>
    /\ UNCHANGED << instances, factoryLock, configLoaded, fnew, built, attached,
                    started >>
    /\ UNCHANGED << orchVars, prodVars, dbVars, fileVars, wdcVars, loopVars,
                    cfgVars, statVars,
                    matchVars, recVars >>

\* a variant that does not take the lock when it is held
MutEnterWithoutLock(c) ==
    /\ fpc[c] = "lock"
    /\ fpc' = [fpc EXCEPT ![c] = "locked"]
    /\ UNCHANGED << instances, factoryLock, configLoaded, fcall, fnew, fres, built,
                    attached, started, got, nCalls >>
    /\ UNCHANGED << orchVars, prodVars, dbVars, fileVars, wdcVars, loopVars,
                    cfgVars, statVars,
                    matchVars, recVars >>

\* with cls._lock: the caller waits until the lock is free
FactoryAcquire(c) ==
    /\ fpc[c] = "lock"
    /\ factoryLock[fcall[c].f] = NoThread
    /\ factoryLock' = [factoryLock EXCEPT ![fcall[c].f] = c]
    /\ fpc' = [fpc EXCEPT ![c] = "locked"]
    /\ UNCHANGED << instances, configLoaded, fcall, fnew, fres, built, attached,
                    started, got, nCalls >>
    /\ UNCHANGED << orchVars, prodVars, dbVars, fileVars, wdcVars, loopVars,
                    cfgVars, statVars,
                    matchVars, recVars >>

\* a variant without the second look at _instances
MutNoCheckUnderLock(c) ==
    /\ fpc[c] = "locked"
    /\ fpc' = [fpc EXCEPT ![c] = "create"]
    /\ UNCHANGED << instances, factoryLock, configLoaded, fcall, fnew, fres, built,
                    attached, started, got, nCalls >>
    /\ UNCHANGED << orchVars, prodVars, dbVars, fileVars, wdcVars, loopVars,
                    cfgVars, statVars,
                    matchVars, recVars >>

\* under the lock: if key not in cls._instances, _create is called; else the
\* lock is released and the cached instance returned.
FactoryLockedCheck(c) ==
    /\ fpc[c] = "locked"
    /\ IF instances[fcall[c].f][fcall[c].k] # 0
          THEN /\ factoryLock' = [factoryLock EXCEPT ![fcall[c].f] = NoThread]
               /\ ReturnInstance(c, instances[fcall[c].f][fcall[c].k])
          ELSE /\ fpc' = [fpc EXCEPT ![c] = "create"]
               /\ UNCHANGED << factoryLock, fres, got >>
    /\ UNCHANGED << instances, configLoaded, fcall, fnew, built, attached, started,
                    nCalls >>
    /\ UNCHANGED << orchVars, prodVars, dbVars, fileVars, wdcVars, loopVars,
                    cfgVars, statVars,
                    matchVars, recVars >>

\* a variant of _create that does not look at the topic
MutNoTopicCheck(c) ==
    /\ fpc[c] = "create"
    /\ configLoaded' = [configLoaded EXCEPT ![fcall[c].f] = TRUE]
    /\ IF ~HasConfig(fcall[c].k) \/ ~Registered(fcall[c].k)
          THEN Raise(c)
          ELSE /\ fpc' = [fpc EXCEPT ![c] = "construct"]
               /\ UNCHANGED factoryLock
    /\ UNCHANGED << instances, fcall, fnew, fres, built, attached, started, got,
                    nCalls >>
    /\ UNCHANGED << orchVars, prodVars, dbVars, fileVars, wdcVars, loopVars,
                    cfgVars, statVars,
                    matchVars, recVars >>

\* _create, up to the construction: the YAML file is loaded on the first
\* call; ValueError when the key has no configuration, when the type has no
\* registry entry, and (producers) when the configuration declares topics
\* and the requested topic is not among them.
CreateLookup(c) ==
    /\ fpc[c] = "create"
    /\ configLoaded' = [configLoaded EXCEPT ![fcall[c].f] = TRUE]
    /\ IF \/ ~HasConfig(fcall[c].k)
          \/ ~Registered(fcall[c].k)
          \/ /\ fcall[c].f = "producer"
             /\ Allowlist(fcall[c].k) # {}
             /\ fcall[c].topic \notin Allowlist(fcall[c].k)
          THEN Raise(c)
          ELSE /\ fpc' = [fpc EXCEPT ![c] = "construct"]
               /\ UNCHANGED factoryLock
    /\ UNCHANGED << instances, fcall, fnew, fres, built, attached, started, got,
                    nCalls >>
    /\ UNCHANGED << orchVars, prodVars, dbVars, fileVars, wdcVars, loopVars,
                    cfgVars, statVars,
                    matchVars, recVars >>

\* entry.producer_class(config) / entry.database_class(config)
CreateConstruct(c) ==
    /\ fpc[c] = "construct"
    /\ built' = [built EXCEPT ![fcall[c].f][fcall[c].k] = @ + 1]
    /\ fnew' = [fnew EXCEPT ![c] = built'[fcall[c].f][fcall[c].k]]
    /\ fpc' = [fpc EXCEPT ![c] = "attach"]
    /\ UNCHANGED << instances, factoryLock, configLoaded, fcall, fres, attached,
                    started, got, nCalls >>
    /\ UNCHANGED << orchVars, prodVars, dbVars, fileVars, wdcVars, loopVars,
                    cfgVars, statVars,
                    matchVars, recVars >>

\* the new orchestrator is assigned to the resource
CreateAttach(c) ==
    /\ fpc[c] = "attach"
    /\ attached' = [attached EXCEPT ![fcall[c].f][fcall[c].k] = @ + 1]
    /\ fpc' = [fpc EXCEPT ![c] = "start"]
    /\ UNCHANGED << instances, factoryLock, configLoaded, fcall, fnew, fres, built,
                    started, got, nCalls >>
    /\ UNCHANGED << orchVars, prodVars, dbVars, fileVars, wdcVars, loopVars,
                    cfgVars, statVars,
                    matchVars, recVars >>

\* producer_ref.start() starts the worker thread; database_ref.start()
\* raises AttributeError, which leaves _create and get_instance.
CreateStart(c) ==
    /\ fpc[c] = "start"
    /\ IF HasStart(fcall[c].f)
          THEN /\ started' = [started EXCEPT ![fcall[c].f][fcall[c].k] = @ + 1]
               /\ fpc' = [fpc EXCEPT ![c] = "store"]
               /\ UNCHANGED factoryLock
          ELSE /\ Raise(c)
               /\ UNCHANGED started
    /\ UNCHANGED << instances, configLoaded, fcall, fnew, fres, built, attached,
                    got, nCalls >>
    /\ UNCHANGED << orchVars, prodVars, dbVars, fileVars, wdcVars, loopVars,
                    cfgVars, statVars,
                    matchVars, recVars >>

\* cls._instances[key] = <what _create returned>; the lock is released and
\* cls._instances[key] returned.
FactoryStore(c) ==
    /\ fpc[c] = "store"
    /\ instances' = [instances EXCEPT ![fcall[c].f][fcall[c].k] = fnew[c]]
    /\ factoryLock' = [factoryLock EXCEPT ![fcall[c].f] = NoThread]
    /\ ReturnInstance(c, fnew[c])
    /\ UNCHANGED << configLoaded, fcall, fnew, built, attached, started, nCalls >>
    /\ UNCHANGED << orchVars, prodVars, dbVars, fileVars, wdcVars, loopVars,
                    cfgVars, statVars,
                    matchVars, recVars >>

\* the caller goes on, and may call get_instance again
FactoryDone(c) ==
    /\ fpc[c] \in { "returned", "raised" }
    /\ fpc' = [fpc EXCEPT ![c] = "idle"]
    /\ fcall' = [fcall EXCEPT ![c] = NoCall]
    /\ fnew' = [fnew EXCEPT ![c] = 0]
    /\ fres' = [fres EXCEPT ![c] = 0]
    /\ UNCHANGED << instances, factoryLock, configLoaded, built, attached, started,
                    got, nCalls >>
    /\ UNCHANGED << orchVars, prodVars, dbVars, fileVars, wdcVars, loopVars,
                    cfgVars, statVars,
                    matchVars, recVars >>

(* ------------------ BaseAgent: reading the path files ------------------- *)
\* The reading part of _run_once, applied cycle after cycle to one path
\* file. The lines of a cycle go to _data_connections_flow, which does not
\* touch the path file; it is modelled in the next section.

\* one character of a log file: an ordinary character or the newline
Chars == { "c", "n" }

\* f.readline() at offset p of text: the end offset of the line that starts
\* there (just past its newline, or the end of the file when no newline
\* follows)
LineEnd(text, p) ==
    IF \E i \in p + 1 .. Len(text) : text[i] = "n"
       THEN CHOOSE i \in p + 1 .. Len(text) :
               /\ text[i] = "n"
               /\ \A j \in p + 1 .. i - 1 : text[j] # "n"
       ELSE Len(text)

RECURSIVE ReadLines(_, _, _)
\* the loop of _read_batch_log: at most n readline() calls from offset p,
\* stopping at the first empty one; gives << the lines, f.tell() >>
ReadLines(text, p, n) ==
    IF n = 0 \/ p >= Len(text)
       THEN << << >>, p >>
       ELSE LET e == LineEnd(text, p)
                rest == ReadLines(text, e, n - 1)
            IN  << << SubSeq(text, p + 1, e) >> \o rest[1], rest[2] >>

AgentFileInit ==
    /\ fileId = 1
    /\ fileContent = << >>
    /\ oldPresent = FALSE
    /\ oldId = 0
    /\ oldContent = << >>
    /\ cursor = 0
    /\ pfId = 0
    /\ curId = 0
    /\ apc = "idle"
    /\ linesRead = << >>
    /\ rotations = 0

\* the application appends a character to its log file
AppendChar ==
    /\ Len(fileContent) < MaxFileLen
    /\ \E ch \in Chars : fileContent' = Append(fileContent, ch)
    /\ UNCHANGED << fileId, oldPresent, oldId, oldContent, cursor, pfId, curId, apc,
                    linesRead, rotations >>
    /\ UNCHANGED << orchVars, prodVars, dbVars, facVars, wdcVars, loopVars,
                    cfgVars, statVars,
                    matchVars, recVars >>

\* the external agent rotates the file: a new, empty file takes the path.
\* Of the files that match the name pattern of line 711, the directory then
\* holds the predecessor under another name (its identity unchanged), or only
\* a file of another identity (an older generation, or the predecessor
\* rewritten by compression), or none
Rotate ==
    /\ rotations < MaxRotations
    /\ rotations' = rotations + 1
    /\ \E kept \in BOOLEAN, same \in BOOLEAN :
          /\ oldPresent' = kept
          /\ oldId' = IF same THEN fileId ELSE fileId + MaxRotations + 1
    /\ oldContent' = fileContent
    /\ fileId' = fileId + 1
    /\ fileContent' = << >>
    /\ UNCHANGED << cursor, pfId, curId, apc, linesRead >>
    /\ UNCHANGED << orchVars, prodVars, dbVars, facVars, wdcVars, loopVars,
                    cfgVars, statVars,
                    matchVars, recVars >>

\* _run_once, lines 675-686: the identity of the file is compared with the
\* stored one
RunOnceCheck ==
    /\ apc = "idle"
    /\ curId' = fileId
    /\ IF pfId = 0
          THEN pfId' = fileId /\ apc' = "read"
          ELSE IF pfId # fileId
                  THEN apc' = "remaining" /\ UNCHANGED pfId
                  ELSE apc' = "read" /\ UNCHANGED pfId
    /\ UNCHANGED << fileId, fileContent, oldPresent, oldId, oldContent, cursor,
                    linesRead, rotations >>
    /\ UNCHANGED << orchVars, prodVars, dbVars, facVars, wdcVars, loopVars,
                    cfgVars, statVars,
                    matchVars, recVars >>

\* a variant that stores the number of characters read, not the offset
MutReadBatchRelative ==
    /\ apc = "read"
    /\ linesRead' = linesRead \o ReadLines(fileContent, cursor, BufferRows)[1]
    /\ cursor' = ReadLines(fileContent, cursor, BufferRows)[2] - cursor
    /\ apc' = "idle"
    /\ UNCHANGED << fileId, fileContent, oldPresent, oldId, oldContent, pfId, curId,
                    rotations >>
    /\ UNCHANGED << orchVars, prodVars, dbVars, facVars, wdcVars, loopVars,
                    cfgVars, statVars,
                    matchVars, recVars >>

\* _read_batch_log: seek(cursor), up to buffer_rows readline() calls,
\* cursor = f.tell(); the lines go to _data_connections_flow
ReadBatch ==
    /\ apc = "read"
    /\ linesRead' = linesRead \o ReadLines(fileContent, cursor, BufferRows)[1]
    /\ cursor' = ReadLines(fileContent, cursor, BufferRows)[2]
    /\ apc' = "idle"
    /\ UNCHANGED << fileId, fileContent, oldPresent, oldId, oldContent, pfId, curId,
                    rotations >>
    /\ UNCHANGED << orchVars, prodVars, dbVars, facVars, wdcVars, loopVars,
                    cfgVars, statVars,
                    matchVars, recVars >>

\* _read_remaining_old_file and lines 684-685. With another file matching
\* the name in the directory, self._get_file_id (line 720), which BaseAgent
\* does not define, raises AttributeError: it leaves _run_once and _worker
\* and ends the thread. With no other file, no line is returned, the cursor
\* is reset and the new identity adopted.
ReadRemaining ==
    /\ apc = "remaining"
    /\ IF oldPresent
          THEN /\ apc' = "dead"
               /\ UNCHANGED << cursor, pfId >>
          ELSE /\ apc' = "idle"
               /\ cursor' = 0
               /\ pfId' = curId
    /\ UNCHANGED << fileId, fileContent, oldPresent, oldId, oldContent, curId,
                    linesRead, rotations >>
    /\ UNCHANGED << orchVars, prodVars, dbVars, facVars, wdcVars, loopVars,
                    cfgVars, statVars,
                    matchVars, recVars >>

(* -------------- BaseAgent: the working data connections ---------------- *)
\* _data_connections_flow and the functions it calls, and the completion
\* callback _on_done, applied to the working data connections of one agent.

Wdcs == 1 .. NWdc

\* the names that databases/factory.py and producers/factory.py define
DatabasesFactoryNames == {"DatabaseFactory"}
ProducersFactoryNames == {"ProducerFactory"}

\* WorkingDataConnection.__init__ sets neither is_updated nor
\* query_in_progress
WdcInit ==
    /\ nWdc = 0
    /\ inSet = [w \in Wdcs |-> FALSE]
    /\ expiry = [w \in Wdcs |-> 0]
    /\ now = 0
    /\ hasDb = [w \in Wdcs |-> FALSE]
    /\ result = [w \in Wdcs |-> 0]
    /\ isUpdated = [w \in Wdcs |-> "unset"]
    /\ inProgress = [w \in Wdcs |-> "unset"]
    /\ submitted = [w \in Wdcs |-> 0]
    /\ lastPass = -1
    /\ sends = << >>
    /\ nPasses = 0
    /\ fresh = [w \in Wdcs |-> FALSE]
    /\ failed = [w \in Wdcs |-> FALSE]

\* from databases.factory import DATABASE_INSTANCES, the first statement of
\* _data_connections_execute_queries
ExecuteQueriesRaises == "DATABASE_INSTANCES" \notin DatabasesFactoryNames

\* from producers.factory import PRODUCER_INSTANCES, the first statement of
\* _send_messages_to_producers
SendMessagesRaises == "PRODUCER_INSTANCES" \notin ProducersFactoryNames

\* _data_connections_flow for a line that gives one working data connection:
\* the connection is built with expired_time = now + expired_time_int (m), the
\* hook of the subclass may give it a result (r # 0), a connection with a
\* result is flagged is_updated, and the list is extended. _data_connections_execute_queries then raises at its import:
\* no query is submitted, and lines 797-803 (the pass over the producers, the
\* cleaning) are not reached.
DataConnectionsFlow ==
    /\ nWdc < NWdc
    /\ \E db \in BOOLEAN, r \in 0 .. NResults, m \in 0 .. MaxTtl :
         /\ nWdc' = nWdc + 1
         /\ inSet' = [inSet EXCEPT ![nWdc + 1] = TRUE]
         /\ expiry' = [expiry EXCEPT ![nWdc + 1] = now + m]
         /\ hasDb' = [hasDb EXCEPT ![nWdc + 1] = db]
         /\ result' = [result EXCEPT ![nWdc + 1] = r]
         /\ isUpdated' = [isUpdated EXCEPT ![nWdc + 1] =
                             IF r # 0 THEN "true" ELSE "unset"]
    /\ ExecuteQueriesRaises
    /\ lastPass' = now
    /\ UNCHANGED << now, inProgress, submitted, sends, nPasses, fresh, failed >>
    /\ UNCHANGED << orchVars, prodVars, dbVars, facVars, fileVars, loopVars,
                    cfgVars, statVars,
                    matchVars, recVars >>

\* _on_done(working_data_connection, fut): fut holds an exception, or a
\* result r (0: an empty or None result)
OnDone(w, exc, r) ==
    /\ w <= nWdc
    /\ inSet[w]
    /\ IF exc
         THEN /\ isUpdated' = [isUpdated EXCEPT ![w] = "false"]
              /\ inProgress' = [inProgress EXCEPT ![w] = "false"]
              /\ failed' = [failed EXCEPT ![w] = TRUE]
              /\ UNCHANGED << result, fresh >>
         ELSE IF r # 0 /\ result[w] # r
         THEN /\ result' = [result EXCEPT ![w] = r]
              /\ isUpdated' = [isUpdated EXCEPT ![w] = "true"]
              /\ inProgress' = [inProgress EXCEPT ![w] = "false"]
              /\ fresh' = [fresh EXCEPT ![w] = TRUE]
              /\ UNCHANGED failed
         ELSE IF r # 0
         THEN /\ isUpdated' = [isUpdated EXCEPT ![w] = "false"]
              /\ inProgress' = [inProgress EXCEPT ![w] = "false"]
              /\ UNCHANGED << result, fresh, failed >>
         ELSE UNCHANGED << result, isUpdated, inProgress, fresh, failed >>
    /\ UNCHANGED << nWdc, inSet, expiry, now, hasDb, submitted, sends, nPasses,
                    lastPass >>
    /\ UNCHANGED << orchVars, prodVars, dbVars, facVars, fileVars, loopVars,
                    cfgVars, statVars,
                    matchVars, recVars >>

\* _send_messages_to_producers: the import at its first line raises, outside
\* the try of the loop: nothing is handed to a producer and is_updated stays
\* as it was
SendMessagesToProducers ==
    /\ \E w \in Wdcs : inSet[w]
    /\ nPasses < MaxPasses
    /\ nPasses' = nPasses + 1
    /\ SendMessagesRaises
    /\ fresh' = [w \in Wdcs |-> FALSE]
    /\ UNCHANGED failed
    /\ UNCHANGED << nWdc, inSet, expiry, now, hasDb, result, isUpdated,
                    inProgress, submitted, sends, lastPass >>
    /\ UNCHANGED << orchVars, prodVars, dbVars, facVars, fileVars, loopVars,
                    cfgVars, statVars,
                    matchVars, recVars >>

\* _clean_working_data_connections: every connection of the list whose
\* expired_time is before now is removed, whatever its flags
CleanWorkingDataConnections ==
    /\ \E w \in Wdcs : inSet[w] /\ expiry[w] < now
    /\ inSet' = [w \in Wdcs |-> inSet[w] /\ ~(expiry[w] < now)]
    /\ UNCHANGED << nWdc, expiry, now, hasDb, result, isUpdated, inProgress,
                    submitted, sends, nPasses, fresh, failed, lastPass >>
    /\ UNCHANGED << orchVars, prodVars, dbVars, facVars, fileVars, loopVars,
                    cfgVars, statVars,
                    matchVars, recVars >>

\* a minute passes
Tick ==
    /\ now < MaxTime
    /\ now' = now + 1
    /\ UNCHANGED << nWdc, inSet, expiry, hasDb, result, isUpdated, inProgress,
                    submitted, sends, nPasses, fresh, failed, lastPass >>
    /\ UNCHANGED << orchVars, prodVars, dbVars, facVars, fileVars, loopVars,
                    cfgVars, statVars,
                    matchVars, recVars >>

(* ------------------- BaseAgent: the worker thread ----------------------- *)

Agents == 1 .. NAgents

LoopInit ==
    /\ aPaths = [a \in Agents |-> 0]
    /\ agentPc = [a \in Agents |-> "none"]
    /\ aStop = [a \in Agents |-> FALSE]
    /\ astopPc = [a \in Agents |-> "none"]
    /\ iters = [a \in Agents |-> 0]
    /\ itersAtStop = [a \in Agents |-> 0]

\* BaseAgent.__init__ for a configuration with n path files: the event is
\* created unset and the worker thread is started
AgentInit(a, n) ==
    /\ agentPc[a] = "none"
    /\ aPaths' = [aPaths EXCEPT ![a] = n]
    /\ agentPc' = [agentPc EXCEPT ![a] = "test"]
    /\ UNCHANGED << aStop, astopPc, iters, itersAtStop >>
    /\ UNCHANGED << orchVars, prodVars, dbVars, facVars, fileVars, wdcVars,
                    cfgVars, statVars,
                    matchVars, recVars >>

\* the loop test without the event: while True
MutWorkerTestIgnoresStop(a) ==
    /\ agentPc[a] = "test"
    /\ iters[a] < MaxIters
    /\ agentPc' = [agentPc EXCEPT ![a] = "run"]
    /\ iters' = [iters EXCEPT ![a] = @ + 1]
    /\ UNCHANGED << aPaths, aStop, astopPc, itersAtStop >>
    /\ UNCHANGED << orchVars, prodVars, dbVars, facVars, fileVars, wdcVars,
                    cfgVars, statVars,
                    matchVars, recVars >>

\* _worker: while not self._stop_event.is_set()
WorkerTest(a) ==
    /\ agentPc[a] = "test"
    /\ IF aStop[a]
         THEN /\ agentPc' = [agentPc EXCEPT ![a] = "exited"]
              /\ UNCHANGED iters
         ELSE /\ iters[a] < MaxIters
              /\ agentPc' = [agentPc EXCEPT ![a] = "run"]
              /\ iters' = [iters EXCEPT ![a] = @ + 1]
    /\ UNCHANGED << aPaths, aStop, astopPc, itersAtStop >>
    /\ UNCHANGED << orchVars, prodVars, dbVars, facVars, fileVars, wdcVars,
                    cfgVars, statVars,
                    matchVars, recVars >>

\* _run_once raises for an agent with a path file: whatever the file holds,
\* the body of the for loop ends with _data_connections_flow, which raises at
\* the import of _data_connections_execute_queries (get_file_id and the two
\* read functions can raise before it). Nothing between the raise and the top
\* of _worker catches.
RunOnceRaises(a) == aPaths[a] > 0

\* _worker: self._run_once(), an exception of which leaves _worker and ends
\* the thread
RunOnce(a) ==
    /\ agentPc[a] = "run"
    /\ agentPc' = [agentPc EXCEPT ![a] = IF RunOnceRaises(a) THEN "dead" ELSE "sleep"]
    /\ UNCHANGED << aPaths, aStop, astopPc, iters, itersAtStop >>
    /\ UNCHANGED << orchVars, prodVars, dbVars, facVars, fileVars, wdcVars,
                    cfgVars, statVars,
                    matchVars, recVars >>

\* _worker: time.sleep(self.config.pool_interval)
WorkerSleep(a) ==
    /\ agentPc[a] = "sleep"
    /\ agentPc' = [agentPc EXCEPT ![a] = "test"]
    /\ UNCHANGED << aPaths, aStop, astopPc, iters, itersAtStop >>
    /\ UNCHANGED << orchVars, prodVars, dbVars, facVars, fileVars, wdcVars,
                    cfgVars, statVars,
                    matchVars, recVars >>

\* stop(): self._stop_event.set()
AgentStop(a) ==
    /\ agentPc[a] # "none"
    /\ astopPc[a] = "none"
    /\ aStop' = [aStop EXCEPT ![a] = TRUE]
    /\ astopPc' = [astopPc EXCEPT ![a] = "join"]
    /\ itersAtStop' = [itersAtStop EXCEPT ![a] = iters[a]]
    /\ UNCHANGED << aPaths, agentPc, iters >>
    /\ UNCHANGED << orchVars, prodVars, dbVars, facVars, fileVars, wdcVars,
                    cfgVars, statVars,
                    matchVars, recVars >>

\* stop(): self._thread.join() returns once the thread has ended
AgentJoin(a) ==
    /\ astopPc[a] = "join"
    /\ agentPc[a] \in {"exited", "dead"}
    /\ astopPc' = [astopPc EXCEPT ![a] = "returned"]
    /\ UNCHANGED << aPaths, agentPc, aStop, iters, itersAtStop >>
    /\ UNCHANGED << orchVars, prodVars, dbVars, facVars, fileVars, wdcVars,
                    cfgVars, statVars,
                    matchVars, recVars >>

(* ------------------- BaseAgentConfig: validation ------------------------ *)

\* names of path files
FileNames == {"a", "b", "c"}

\* the source references of the data connections of a configuration
RefLists ==
    UNION { [1 .. n -> FileNames \cup {"none"}] : n \in 0 .. MaxRefs }

CfgInit ==
    /\ cfgPaths = {}
    /\ cfgRefs = << >>
    /\ cfgOutcome = "unset"

\* validate_regex_path_references: nothing is checked when path_files is None
\* or empty; otherwise the first source_ref whose path_file_name is not the
\* name of a path file raises ValueError
validate_regex_path_references(paths, refs) ==
    IF paths = {}
    THEN "valid"
    ELSE IF \E i \in DOMAIN refs : refs[i] # "none" /\ refs[i] \notin paths
         THEN "ValueError"
         ELSE "valid"

\* a BaseAgentConfig is built from a configuration
ValidateConfig ==
    \E paths \in SUBSET FileNames, refs \in RefLists :
        /\ cfgPaths' = paths
        /\ cfgRefs' = refs
        /\ cfgOutcome' = validate_regex_path_references(paths, refs)
        /\ UNCHANGED << orchVars, prodVars, dbVars, facVars, fileVars, wdcVars,
                        loopVars, statVars,
                    matchVars, recVars >>

(* ---------------- WorkingDataConnection: status and expiry -------------- *)
\* The methods of agents/data.py applied to one WorkingDataConnection.

WorkingDataStatus == {"READY", "QUERY_RUNNING", "UPDATED", "EXPIRED"}

\* __init__: READY, no result; the object of the initial state has no
\* expired_time
StatInit ==
    /\ status = "READY"
    /\ expired_time = -1
    /\ queryResult = 0
    /\ dataNow = 0
    /\ wdcObj = 1
    /\ forcedAt = -1
    /\ checkedAt = -1
    /\ lastDone = "none"

\* from_config: expired_time is now + expired_time_int, None without one
from_config ==
    /\ wdcObj < MaxObjs
    /\ wdcObj' = wdcObj + 1
    /\ forcedAt' = -1
    /\ checkedAt' = -1
    /\ lastDone' = "none"
    /\ status' = "READY"
    /\ queryResult' = 0
    /\ \E m \in -1 .. MaxTtl :
          expired_time' = IF m = -1 THEN -1 ELSE dataNow + m
    /\ UNCHANGED dataNow
    /\ UNCHANGED << orchVars, prodVars, dbVars, facVars, fileVars, wdcVars,
                    loopVars, cfgVars,
                    matchVars, recVars >>

update_expired_time(m) ==
    /\ expired_time' = dataNow + m
    /\ forcedAt' = IF m = 0 THEN dataNow ELSE -1
    /\ checkedAt' = -1
    /\ UNCHANGED << status, queryResult, dataNow, wdcObj, lastDone >>
    /\ UNCHANGED << orchVars, prodVars, dbVars, facVars, fileVars, wdcVars,
                    loopVars, cfgVars,
                    matchVars, recVars >>

\* set_ready_status as a function of the status
ReadyStatus(st) == IF st # "EXPIRED" THEN "READY" ELSE st

set_query_running_status ==
    /\ status' = IF status # "EXPIRED" /\ status # "UPDATED"
                  THEN "QUERY_RUNNING" ELSE status
    /\ lastDone' = "none"
    /\ UNCHANGED << expired_time, queryResult, dataNow, wdcObj, forcedAt,
                    checkedAt >>
    /\ UNCHANGED << orchVars, prodVars, dbVars, facVars, fileVars, wdcVars,
                    loopVars, cfgVars,
                    matchVars, recVars >>

set_ready_status ==
    /\ status' = ReadyStatus(status)
    /\ UNCHANGED << expired_time, queryResult, dataNow, wdcObj, forcedAt,
                    checkedAt, lastDone >>
    /\ UNCHANGED << orchVars, prodVars, dbVars, facVars, fileVars, wdcVars,
                    loopVars, cfgVars,
                    matchVars, recVars >>

\* on_query_done(fut): fut holds an exception, or a result r (0: an empty or
\* None result)
on_query_done(exc, r) ==
    /\ IF exc
         THEN /\ expired_time' = dataNow
              /\ forcedAt' = dataNow
              /\ checkedAt' = -1
              /\ UNCHANGED << status, queryResult >>
         ELSE IF r # 0 /\ queryResult # r
         THEN /\ queryResult' = r
              /\ status' = "UPDATED"
              /\ UNCHANGED << expired_time, forcedAt, checkedAt >>
         ELSE IF r # 0
         THEN /\ status' = ReadyStatus(status)
              /\ UNCHANGED << expired_time, queryResult, forcedAt, checkedAt >>
         ELSE UNCHANGED << status, expired_time, queryResult, forcedAt,
                        checkedAt >>
    /\ lastDone' = IF exc THEN "exception" ELSE IF r # 0 THEN "rows" ELSE "empty"
    /\ UNCHANGED << dataNow, wdcObj >>
    /\ UNCHANGED << orchVars, prodVars, dbVars, facVars, fileVars, wdcVars,
                    loopVars, cfgVars,
                    matchVars, recVars >>

\* a variant that expires a connection only two clock readings later
MutCheckExpiresLate ==
    /\ status' = IF expired_time # -1 /\ dataNow > expired_time + 1
                  THEN "EXPIRED" ELSE status
    /\ checkedAt' = dataNow
    /\ UNCHANGED << expired_time, queryResult, dataNow, wdcObj, forcedAt,
                    lastDone >>
    /\ UNCHANGED << orchVars, prodVars, dbVars, facVars, fileVars, wdcVars,
                    loopVars, cfgVars,
                    matchVars, recVars >>

\* check_expired_time: nothing without an expired_time; EXPIRED when
\* datetime.now() is strictly later than expired_time
check_expired_time ==
    /\ status' = IF expired_time # -1 /\ dataNow > expired_time
                  THEN "EXPIRED" ELSE status
    /\ checkedAt' = dataNow
    /\ UNCHANGED << expired_time, queryResult, dataNow, wdcObj, forcedAt,
                    lastDone >>
    /\ UNCHANGED << orchVars, prodVars, dbVars, facVars, fileVars, wdcVars,
                    loopVars, cfgVars,
                    matchVars, recVars >>

\* a minute passes
DataTick ==
    /\ dataNow < MaxTime
    /\ dataNow' = dataNow + 1
    /\ UNCHANGED << status, expired_time, queryResult, wdcObj, forcedAt,
                    checkedAt, lastDone >>
    /\ UNCHANGED << orchVars, prodVars, dbVars, facVars, fileVars, wdcVars,
                    loopVars, cfgVars,
                    matchVars, recVars >>

(* --------------- BaseAgent: _data_connections_match_regex -------------- *)
\* The function applied to the lines of one path file. A line is one of
\* LineKinds; a data connection has the path_file_name of its source_ref
\* ("none" without a source_ref) and a regex, which matches the lines of one
\* kind.

MatchFiles == {"a", "b"}
LineKinds == {"x", "y"}
DataConnections == [file : MatchFiles \cup {"none"}, pat : LineKinds]

\* the sequences over S of at most n elements
SeqUpTo(S, n) == UNION { [1 .. k -> S] : k \in 0 .. n }

\* lines 847-860: the source_ref names the path file and regex_pattern.search
\* finds a match in the line
RegexMatched(file, line, dc) == dc.file = file /\ dc.pat = line

\* the loops of lines 827-862: for each line and each data connection a
\* WorkingDataConnection is built (829-846) and appended (861); it carries
\* data_dict_match when the regex matched
data_connections_match_regex(file, lines, conns) ==
    [ k \in 1 .. Len(lines) * Len(conns) |->
        LET i == ((k - 1) \div Len(conns)) + 1
            j == ((k - 1) % Len(conns)) + 1
        IN  [ line |-> i, conn |-> j,
              match |-> RegexMatched(file, lines[i], conns[j]) ] ]

MatchInit ==
    /\ mFile = "a"
    /\ mLines = << >>
    /\ mConns = << >>
    /\ mOut = << >>

\* _data_connections_flow, line 780: the call for the lines of a path file
MatchRegexCall ==
    \E file \in MatchFiles, lines \in SeqUpTo(LineKinds, MaxLines),
       conns \in SeqUpTo(DataConnections, MaxConns) :
        /\ mFile' = file
        /\ mLines' = lines
        /\ mConns' = conns
        /\ mOut' = data_connections_match_regex(file, lines, conns)
        /\ UNCHANGED << orchVars, prodVars, dbVars, facVars, fileVars, wdcVars,
                        loopVars, cfgVars, statVars, recVars >>

(* ------------- a producer whose resource never connects ---------------- *)
\* The worker of a started producer inside its first ensure_connected
\* (producers/base.py, line 226) when every _connect raises. Each round of
\* _connect_with_retry ends with the method calling itself (line 113), which
\* stacks one more activation; at the interpreter's recursion limit the call
\* raises RecursionError instead.

RecInit == depth = 0

\* _connect_with_retry, lines 100-109, with a resource that cannot be
\* connected: self._connect() raises at every invocation (the count of
\* failures saturates at MaxFails)
ConnectNever(t) ==
    /\ pc[t] = "cwr_connect"
    /\ nFails' = IF nFails < MaxFails THEN nFails + 1 ELSE nFails
    /\ pc' = [pc EXCEPT ![t] = "cwr_sleep"]
    /\ connectCalls' = Bump(connectCalls)
    /\ connectors' = connectors \cup {t}
    /\ UNCHANGED << connected, lock, alive, attempt, why, drops, everCleared,
                    clearedPending, obliged >>

\* the worker inside ensure_connected
WorkerDownStep ==
    /\ wpc = "ec0_wait"
    /\ \/ AcquireLock(W) /\ UNCHANGED depth
       \/ LockedCheck(W) /\ UNCHANGED depth
       \/ ConnectNever(W) /\ UNCHANGED depth
       \/ RetrySleep(W) /\ UNCHANGED depth
       \/ depth < MaxDepth /\ CoolDown(W) /\ depth' = depth + 1
    /\ UNCHANGED << prodVars, dbVars, otherRest >>

\* line 113 at the recursion limit: RecursionError leaves every activation of
\* _connect_with_retry (none catches it: the try of lines 100-109 covers
\* self._connect() only), the with block of ensure_connected releases the
\* lock, and the exception leaves _worker at line 226, outside its try: the
\* worker thread ends
RecursionLimit ==
    /\ wpc = "ec0_wait"
    /\ pc[W] = "cwr_cooldown"
    /\ depth = MaxDepth
    /\ pc' = [pc EXCEPT ![W] = "idle"]
    /\ lock' = NoThread
    /\ attempt' = [attempt EXCEPT ![W] = 0]
    /\ why' = [why EXCEPT ![W] = "none"]
    /\ obliged' = [obliged EXCEPT ![W] = FALSE]
    /\ wpc' = "dead"
    /\ UNCHANGED << connected, alive, connectCalls, nFails, connectors, drops,
                    everCleared, clearedPending >>
    /\ UNCHANGED << prodRest, dbVars, otherVars >>

(* ---------------------------- specifications ---------------------------- *)

\* construction of the orchestrator, the producer and the database; the
\* factories' class attributes at import
Init == OrchInit /\ ProdInit /\ DbInit /\ FacInit /\ AgentFileInit /\ WdcInit
        /\ LoopInit /\ CfgInit /\ StatInit /\ MatchInit /\ RecInit

\* a thread inside a call of the orchestrator, when nothing else runs
ThreadStep(t) ==
    \/ AcquireLock(t) /\ UNCHANGED << prodVars, dbVars, otherVars >>
    \/ LockedCheck(t) /\ UNCHANGED << prodVars, dbVars, otherVars >>
    \/ ConnectOk(t) /\ UNCHANGED << prodVars, dbVars, otherVars >>
    \/ ConnectFail(t) /\ UNCHANGED << prodVars, dbVars, otherVars >>
    \/ SetFlag(t) /\ UNCHANGED << prodVars, dbVars, otherVars >>
    \/ RetrySleep(t) /\ UNCHANGED << prodVars, dbVars, otherVars >>
    \/ CoolDown(t) /\ UNCHANGED << prodVars, dbVars, otherVars >>
    \/ ClearFlag(t) /\ UNCHANGED << prodVars, dbVars, otherVars >>

\* threads calling one orchestrator concurrently
OrchNext ==
    \/ \E t \in Threads : ensure_connected(t) /\ UNCHANGED << prodVars, dbVars, otherVars >>
    \/ \E t \in Threads : mark_disconnected(t) /\ UNCHANGED << prodVars, dbVars, otherVars >>
    \/ \E t \in Threads : ThreadStep(t)
    \/ \E t \in Threads : CallReturn(t) /\ UNCHANGED << prodVars, dbVars, otherVars >>
    \/ ResourceDrop /\ UNCHANGED << prodVars, dbVars, otherVars >>

SpecOrch == Init /\ [][OrchNext]_vars

\* The scheduler runs every thread that can take a step, and a connect that
\* is attempted again and again eventually succeeds.
SpecOrchFair ==
    /\ SpecOrch
    /\ \A t \in Threads : WF_vars(ThreadStep(t))
    /\ SF_vars(\E t \in Threads : ConnectOk(t) /\ UNCHANGED << prodVars, dbVars, otherVars >>)

\* one producer with its worker thread, its orchestrator and a thread
\* calling stop()
ProdNext ==
    \/ start
    \/ enqueue_message
    \/ WorkerNext
    \/ stop
    \/ StopJoin
    \/ StopClose
    \/ ResourceDrop /\ UNCHANGED << prodVars, dbVars, otherVars >>

SpecProd == Init /\ [][ProdNext]_vars

\* The worker thread and the thread inside stop() are scheduled when they
\* can take a step, and a connect attempted again and again succeeds.
SpecProdFair ==
    /\ SpecProd
    /\ WF_vars(WorkerNext)
    /\ WF_vars(StopJoin \/ StopClose)
    /\ SF_vars(ConnectOk(W) /\ UNCHANGED << prodVars, dbVars, otherVars >>)

\* a started producer whose resource never connects, and a thread calling
\* stop()
ProdDownNext ==
    \/ start
    \/ enqueue_message
    \/ WorkerEnsureFirst
    \/ WorkerDownStep
    \/ RecursionLimit
    \/ stop
    \/ StopJoin
    \/ StopClose

\* the worker thread and the thread inside stop() are scheduled when they can
\* take a step
SpecProdDown ==
    /\ Init
    /\ [][ProdDownNext]_vars
    /\ WF_vars(WorkerEnsureFirst \/ WorkerDownStep \/ RecursionLimit)
    /\ WF_vars(StopJoin \/ StopClose)

\* one database with its dispatcher, its pool and a thread calling shutdown()
DbNext ==
    \/ execute
    \/ \E e \in {Dispatcher} \cup Tasks : SafeConnectOk(e)
    \/ \E e \in {Dispatcher} \cup Tasks : SafeConnectFail(e)
    \/ DispatchLoop
    \/ DispatchGet
    \/ \E k \in Tasks : WorkerTake(k)
    \/ \E k \in Tasks : QueryOk(k)
    \/ \E k \in Tasks : QueryFail(k)
    \/ \E k \in Tasks : Callback(k)
    \/ shutdown
    \/ ShutdownJoin
    \/ ShutdownQueueJoin
    \/ ShutdownPool
    \/ ShutdownReturn

SpecDb == Init /\ [][DbNext]_vars

\* The dispatcher thread, the workers of the pool and the thread inside
\* shutdown() are scheduled whenever they can take a step.
SpecDbFair ==
    /\ SpecDb
    /\ WF_vars(DispatchLoop \/ DispatchGet
                  \/ SafeConnectOk(Dispatcher) \/ SafeConnectFail(Dispatcher))
    /\ \A k \in Tasks :
          WF_vars(WorkerTake(k) \/ QueryOk(k) \/ QueryFail(k) \/ Callback(k)
                     \/ SafeConnectOk(k) \/ SafeConnectFail(k))
    /\ WF_vars(ShutdownJoin \/ ShutdownQueueJoin \/ ShutdownPool \/ ShutdownReturn)

\* threads calling get_instance of the two factories concurrently
FacNext ==
    \/ \E c \in Callers : get_instance(c)
    \/ \E c \in Callers : FactoryAcquire(c)
    \/ \E c \in Callers : FactoryLockedCheck(c)
    \/ \E c \in Callers : CreateLookup(c)
    \/ \E c \in Callers : CreateConstruct(c)
    \/ \E c \in Callers : CreateAttach(c)
    \/ \E c \in Callers : CreateStart(c)
    \/ \E c \in Callers : FactoryStore(c)
    \/ \E c \in Callers : FactoryDone(c)

SpecFac == Init /\ [][FacNext]_vars

\* one agent reading one path file, the application that writes the file
\* and the external agent that rotates it
AgentFileNext ==
    \/ AppendChar
    \/ Rotate
    \/ RunOnceCheck
    \/ ReadBatch
    \/ ReadRemaining

SpecAgentFile == Init /\ [][AgentFileNext]_vars

WdcNext ==
    \/ DataConnectionsFlow
    \/ \E w \in Wdcs, exc \in BOOLEAN, r \in 0 .. NResults : OnDone(w, exc, r)
    \/ SendMessagesToProducers
    \/ CleanWorkingDataConnections
    \/ Tick

SpecWdc == Init /\ [][WdcNext]_vars

LoopNext ==
    \/ \E a \in Agents, n \in 0 .. MaxPathFiles : AgentInit(a, n)
    \/ \E a \in Agents : WorkerTest(a)
    \/ \E a \in Agents : RunOnce(a)
    \/ \E a \in Agents : WorkerSleep(a)
    \/ \E a \in Agents : AgentStop(a)
    \/ \E a \in Agents : AgentJoin(a)

SpecLoop == Init /\ [][LoopNext]_vars

CfgNext == ValidateConfig

StatNext ==
    \/ from_config
    \/ \E m \in 0 .. MaxTtl : update_expired_time(m)
    \/ set_query_running_status
    \/ set_ready_status
    \/ \E exc \in BOOLEAN, r \in 0 .. NResults : on_query_done(exc, r)
    \/ check_expired_time
    \/ DataTick

SpecStat == Init /\ [][StatNext]_vars

SpecCfg == Init /\ [][CfgNext]_vars

MatchNext == MatchRegexCall

SpecMatch == Init /\ [][MatchNext]_vars

\* the worker threads and the callers of stop() are scheduled fairly
SpecLoopFair ==
    /\ SpecLoop
    /\ \A a \in Agents :
          WF_vars(WorkerTest(a) \/ RunOnce(a) \/ WorkerSleep(a) \/ AgentJoin(a))

(* ------------------- claims about the orchestrator ---------------------- *)

\* C1: ensure_connected is single-flight: at most one thread at a time is
\* inside the lock-protected part (the second check and the reconnect
\* sequence), that thread holds the lock, and every other caller that found
\* the flag unset is waiting on the lock.
C1_SingleFlight ==
    \A t \in Threads :
        pc[t] \in InReconnect \cup { "ec_locked" } =>
            /\ lock = t
            /\ \A u \in Threads \ {t} : pc[u] \notin InReconnect \cup { "ec_locked" }

C1_Witness ==
    \E t, u \in Threads : pc[t] = "cwr_sleep" /\ pc[u] = "ec_lock"

\* C2: reconnect storm: starting disconnected, as long as the flag has never
\* been cleared, whenever a caller of ensure_connected returns, connect has
\* been invoked exactly (number of failures) + 1 times, all by one caller,
\* and a caller that did not invoke connect returned on reading the flag set.
C2_ReconnectStorm ==
    \A t \in Threads :
        (~everCleared /\ pc[t] = "ec_ret") =>
            /\ connectCalls = nFails + 1
            /\ Cardinality(connectors) = 1
            /\ t \notin connectors => why[t] \in { "flag", "flagL" }

C2_Witness ==
    \E t, u \in Threads :
        /\ ~everCleared
        /\ pc[t] = "ec_ret" /\ why[t] = "connect"
        /\ pc[u] = "ec_ret" /\ why[u] = "flagL"
        /\ nFails >= 1 /\ nFails < MaxRetries
        /\ connectCalls = nFails + 1
        /\ connectors = {t}

C5_NextCallReconnects ==
    [][ \A t \in Threads :
          /\ (pc[t] = "idle" /\ pc'[t] \in { "md_ret", "md_clear" }) =>
                 (connected' = connected /\ (alive <=> pc'[t] = "md_ret"))
          /\ (pc[t] = "md_clear" /\ pc'[t] = "md_ret") => connected' = FALSE
          /\ (obliged'[t] /\ pc[t] # "ec_ret" /\ pc'[t] = "ec_ret") =>
                 why'[t] = "connect" ]_vars

\* C5 amended: the same effect on the flag; the first ensure_connected that
\* begins after a clearing call returns without invoking connect only when
\* it reads the flag as set again (by a reconnect of another call).
C5_MarkDisconnected ==
    [][ \A t \in Threads :
          /\ (pc[t] = "idle" /\ pc'[t] \in { "md_ret", "md_clear" }) =>
                 (connected' = connected /\ (alive <=> pc'[t] = "md_ret"))
          /\ (pc[t] = "md_clear" /\ pc'[t] = "md_ret") => connected' = FALSE
          /\ (obliged'[t] /\ pc[t] # "ec_ret" /\ pc'[t] = "ec_ret") =>
                 (why'[t] = "connect" \/ connected) ]_vars

C5_Witness ==
    \E t \in Threads :
        obliged[t] /\ pc[t] = "ec_ret" /\ why[t] = "connect" /\ everCleared

(* --------------------- claims about the producer ------------------------ *)

\* the messages sent successfully so far
Delivered == { delivered[i] : i \in DOMAIN delivered }

\* C6 as stated (its state part): the retry counter stays within
\* 0..max_retries, a message is put back at most max_retries times, and once
\* the worker has raised a final error (nobody having called stop), every
\* message whose sends all failed has been passed to _send exactly
\* max_retries + 1 times.
C6_EveryFailingMessageExhausted ==
    \A m \in Msgs :
        /\ retries[m] \in 0 .. MaxRetries
        /\ requeues[m] <= MaxRetries
        /\ (wpc = "dead" /\ ~stop_event /\ sendCount[m] >= 1 /\ m \notin Delivered)
              => sendCount[m] = MaxRetries + 1

\* C6 amended: the retry counter starts at 0, changes only by +1 after a
\* failed send of that message, never exceeds max_retries; a message is put
\* back at most max_retries times and passed to _send at most
\* max_retries + 1 times; the message whose failure the worker raises has
\* been passed to _send exactly max_retries + 1 times and never succeeded.
C6_RetryBound ==
    /\ [](\A m \in Msgs :
            /\ retries[m] \in 0 .. MaxRetries
            /\ m > nextId => retries[m] = 0
            /\ requeues[m] <= MaxRetries
            /\ sendCount[m] <= MaxRetries + 1
            /\ finalErr = m => /\ sendCount[m] = MaxRetries + 1
                               /\ retries[m] = MaxRetries
                               /\ m \notin Delivered)
    /\ [][ \A m \in Msgs :
             retries'[m] # retries[m] =>
                 /\ retries'[m] = retries[m] + 1
                 /\ cur = m
                 /\ sendCount[m] = retries[m] + 1
                 /\ m \notin Delivered ]_vars

C6_Witness ==
    /\ wpc = "dead"
    /\ finalErr # 0
    /\ sendCount[finalErr] = MaxRetries + 1
    /\ requeues[finalErr] = MaxRetries

\* C7: at-least-once delivery: every message accepted by enqueue_message on
\* a started producer is eventually passed to _send, unless stop() is called.
C7_AtLeastOnce ==
    \A m \in Msgs : (m \in accepted) ~> (sendCount[m] >= 1 \/ stop_event)

C9_StopDrains ==
    (stopPc = "returned" /\ ~stopTimeout) =>
        /\ \A m \in 1 .. enqAtStop : m \in Delivered \/ finalErr = m
        /\ wpc \in { "exited", "dead" }
        /\ closed

(* --------------------- claims about the database ------------------------ *)

\* C10: a task whose query failed is retried while retries < max_retries,
\* and its future is completed only with the exception, at
\* retries = max_retries, never with a result.
C10_FailedQueryCompletesWithError ==
    \A k \in Tasks :
        (queryFailed[k] /\ fut[k] # "pending") =>
            /\ fut[k] = "exc"
            /\ tRetries[k] = MaxRetries

\* C11: every query submitted while the dispatcher is running has its future
\* completed eventually and exactly once: with the rows when the driver query
\* succeeded, with an exception when it failed; a completed future never
\* changes again.
C11_FutureCompletedOnce ==
    /\ \A k \in Tasks :
          (tpc[k] = "queued" /\ ~dbStop /\ dpc \notin { "exited", "dead" })
              ~> (fut[k] # "pending")
    /\ [](\A k \in Tasks :
            /\ fut[k] = "rows" => ~queryFailed[k]
            /\ (fut[k] # "pending" /\ queryFailed[k]) => fut[k] = "exc"
            /\ fut[k] # "pending" => tpc[k] = "done")
    /\ [][ \A k \in Tasks : fut'[k] # fut[k] => fut[k] = "pending" ]_vars

\* C12: shutdown() always returns, whatever is queued or in flight when it is
\* called (no query being submitted after the call), and when it returns
\* every task enqueued before the call has been signalled done to the queue
\* and no worker of the pool is running.
C12_ShutdownTerminatesAndDrains ==
    /\ (shPc = "join") ~> (shPc = "returned" \/ dbNext > enqAtShutdown)
    /\ [][ (shPc # "returned" /\ shPc' = "returned") =>
             /\ Running' = {}
             /\ \A k \in 1 .. enqAtShutdown : tpc'[k] = "done" ]_vars

(* --------------------- claims about the factories ----------------------- *)

\* the call of c asks a producer for a topic its declared allowlist excludes
TopicExcluded(c) ==
    /\ fcall[c].f = "producer"
    /\ Allowlist(fcall[c].k) # {}
    /\ fcall[c].topic \notin Allowlist(fcall[c].k)

\* C13: keyed singleton, for both factories: all successful callers of one
\* key get the same instance, and for that key the resource is constructed,
\* given an orchestrator and started exactly once (never more than once).
C13_KeyedSingleton ==
    \A f \in Factories, k \in Keys :
        /\ Cardinality(got[f][k]) <= 1
        /\ built[f][k] <= 1
        /\ attached[f][k] <= 1
        /\ started[f][k] <= 1
        /\ got[f][k] # {} =>
              built[f][k] = 1 /\ attached[f][k] = 1 /\ started[f][k] = 1

\* C14: get_instance fails when the type is not registered, when the key is
\* not configured and when the producer's allowlist excludes the topic; a
\* failed get_instance has constructed (and started) no resource, so nothing
\* of it can be in the cache.
C14_FailedAcquisition ==
    \A c \in Callers :
        /\ fpc[c] = "returned" =>
              /\ HasConfig(fcall[c].k)
              /\ Registered(fcall[c].k)
              /\ ~TopicExcluded(c)
        /\ fpc[c] = "raised" =>
              /\ fnew[c] = 0
              /\ started[fcall[c].f][fcall[c].k] = 0

\* C15: a ProducerFactory.get_instance call whose topic is outside the
\* producer's declared topics never returns an instance, cached or not.
C15_TopicAllowlist ==
    \A c \in Callers : TopicExcluded(c) => fpc[c] # "returned"

(* ------------------- claims about reading the files --------------------- *)

C17_OnlyWholeLines ==
    /\ \A i \in DOMAIN linesRead : linesRead[i][Len(linesRead[i])] = "n"
    /\ (apc = "idle" /\ pfId = fileId /\ cursor > 0) => fileContent[cursor] = "n"

\* C18: rotation recovery: in the cycle that finds the identity changed,
\* with the predecessor still in the directory, exactly the characters of
\* the predecessor from the stored cursor to its end are read, the cursor is
\* reset to 0 and the new identity adopted, so that the next cycle reads the
\* new file from offset 0.
C18_RotationRecovery ==
    [][ (apc = "remaining" /\ apc' # "remaining" /\ oldPresent /\ oldId = pfId) =>
           /\ apc' = "idle"
           /\ linesRead' = linesRead
                             \o ReadLines(oldContent, cursor, Len(oldContent))[1]
           /\ cursor' = 0
           /\ pfId' = curId ]_vars

(* --------------- claims about the working data connections -------------- *)

\* the results handed to a producer for working data connection w, in order
SendsOf(s, w) == SelectSeq(s, LAMBDA e : e[1] = w)

\* C20: dedup suppression. A pass over the producers issues exactly one send,
\* carrying the stored result, for every working data connection whose query
\* has returned a result that differs from the one stored before, and issues
\* no send for a connection that is not flagged as updated (its query returned
\* a result equal to the stored one).
C20_DedupSuppression ==
    [][ nPasses' # nPasses =>
          \A w \in Wdcs :
              /\ fresh[w] =>
                    SendsOf(sends', w) = SendsOf(sends, w) \o << << w, result[w] >> >>
              /\ isUpdated[w] # "true" => SendsOf(sends', w) = SendsOf(sends, w) ]_vars

\* C21: TTL eviction. A cycle of the agent (one call of
\* _data_connections_flow) leaves no working data connection in the working
\* set whose expiry time had passed when the cycle began, whatever the flags of
\* the connection.
C21_TtlEviction ==
    [][ nWdc' # nWdc =>
          \A w \in Wdcs : (inSet[w] /\ expiry[w] < now) => ~inSet'[w] ]_vars

(* -------------------- claims about the agent's worker ------------------- *)

\* C22: the agent loop never throws outward: no exception raised inside an
\* iteration ends the worker thread; the worker is alive after the iteration
\* and goes on to the next one.
C22_LoopNeverThrows == \A a \in Agents : agentPc[a] # "dead"

\* C23: once stop() has set the event the worker begins no new iteration, the
\* worker has ended when stop() returns, and stop(), which joins the worker,
\* eventually returns.
C23_StopEndsWorker ==
    /\ [](\A a \in Agents :
            /\ astopPc[a] # "none" => iters[a] = itersAtStop[a]
            /\ astopPc[a] = "returned" => agentPc[a] \in {"exited", "dead"})
    /\ \A a \in Agents : (astopPc[a] = "join") ~> (astopPc[a] = "returned")

\* stop() was called during an iteration of an agent without path files; the
\* worker finished the iteration, slept, found the event set and left the
\* loop, and stop() has returned
C23_Witness ==
    \E a \in Agents :
        /\ astopPc[a] = "returned"
        /\ agentPc[a] = "exited"
        /\ itersAtStop[a] >= 1

(* --------------- claims about the agent's configuration ----------------- *)

\* C24: cross-validation of the agent's configuration: with any number of
\* path files, none included, the validation raises exactly when some data
\* connection has a source_ref whose path_file_name is not the name of a
\* declared path file.
C24_CrossValidation ==
    cfgOutcome # "unset" =>
        (cfgOutcome = "ValueError"
            <=> \E i \in DOMAIN cfgRefs :
                    cfgRefs[i] # "none" /\ cfgRefs[i] \notin cfgPaths)

(* --------------- claims about WorkingDataConnection --------------------- *)

\* the status changes the documentation lists
DocumentedTransition(from, to) ==
    \/ from = "READY" /\ to = "QUERY_RUNNING"
    \/ from = "QUERY_RUNNING" /\ to = "UPDATED"
    \/ from = "QUERY_RUNNING" /\ to = "READY"
    \/ from = "UPDATED" /\ to = "READY"
    \/ to = "EXPIRED"

\* C25: the status of a working data connection changes only along the
\* documented transitions, whatever sequence of set_query_running_status,
\* set_ready_status, on_query_done and check_expired_time calls is applied
\* to it.
C25_StatusLifecycle ==
    [][ (wdcObj' = wdcObj /\ status' # status) =>
            DocumentedTransition(status, status') ]_vars

\* a working data connection that is EXPIRED stays EXPIRED
C25_ExpiredStaysExpired ==
    [][ (wdcObj' = wdcObj /\ status = "EXPIRED") => status' = "EXPIRED" ]_vars

(* ------------- claims about the producer's worker, continued ------------ *)

\* C26: retry exhaustion ends the worker. When a send has failed with
\* retries = max_retries the worker goes on to raise, the raise ends the
\* worker thread, and once the thread has ended no message, queued at that
\* moment or enqueued later, is passed to _send any more.
C26_ExhaustionEndsWorker ==
    /\ [][ (wpc = "decide" /\ retries[cur] = MaxRetries /\ wpc' # wpc) =>
              wpc' = "raise" ]_vars
    /\ [][ (wpc = "raise" /\ wpc' # wpc) =>
              (wpc' = "dead" /\ finalErr' = cur) ]_vars
    /\ [][ wpc = "dead" => (wpc' = "dead" /\ sendCount' = sendCount) ]_vars

\* the worker has ended on the final failure of one message while another
\* message, never passed to _send, is in the queue
C26_Witness ==
    /\ wpc = "dead"
    /\ finalErr # 0
    /\ \E i \in DOMAIN queue : sendCount[queue[i]] = 0

\* C27: the protocol of the worker. A send is attempted only by the step that
\* follows the return of the ensure_connected call of the same iteration; a
\* failed send is followed by a mark_disconnected call, and only when that
\* call has returned is the message re-enqueued or the failure raised.
C27_WorkerProtocol ==
    /\ [][ sendCount' # sendCount => wpc = "send" ]_vars
    /\ [][ (wpc' = "send" /\ wpc # "send") =>
              (wpc = "ec1_wait" /\ pc[W] = "ec_ret") ]_vars
    /\ [][ (wpc' = "ec1_wait" /\ wpc # "ec1_wait") => wpc = "ec1" ]_vars
    /\ [][ (wpc' = "ec1" /\ wpc # "ec1") => wpc = "get" ]_vars
    /\ [][ (wpc = "send" /\ wpc' # "send" /\ delivered' = delivered) =>
              wpc' = "md" ]_vars
    /\ [][ (wpc = "md" /\ wpc' # "md") => wpc' = "md_wait" ]_vars
    /\ [][ (wpc' = "decide" /\ wpc # "decide") =>
              (wpc = "md_wait" /\ pc[W] = "md_ret") ]_vars
    /\ [][ (wpc' \in {"backoff", "raise"} /\ wpc' # wpc) => wpc = "decide" ]_vars
    /\ [][ requeues' # requeues => wpc = "backoff" ]_vars

\* a message has failed, been re-enqueued after mark_disconnected, and been
\* sent again after another ensure_connected
C27_Witness ==
    \E m \in Msgs : requeues[m] >= 1 /\ sendCount[m] >= 2 /\ wpc = "md"

(* --------------------- claims about queue accounting -------------------- *)

\* items of the database's queue that have been dequeued and whose callback
\* has not yet called task_done
DbInFlight == { k \in Tasks : tpc[k] = "pool" \/ k \in Running }

\* the producer's queue: unfinished tasks are the queued messages plus the
\* message the worker holds
ProducerAccounting ==
    /\ unfinished = Len(queue) + (IF cur # 0 THEN 1 ELSE 0)
    /\ unfinished >= 0

\* C28: queue accounting. In the database executor every dequeued task is
\* signalled done exactly once, so the unfinished-task count of the queue is
\* the number of tasks queued plus the number being processed and is never
\* negative; a join on the queue can return exactly when no task is queued or
\* in flight.
C28_QueueAccounting ==
    /\ dbUnfinished = Len(dbQueue) + Cardinality(DbInFlight)
    /\ dbUnfinished >= 0

(* ------------------ claims about the reconnect rounds ------------------- *)

C30_FailedEnrichmentPruned ==
    /\ [][ \A w \in Wdcs : (~failed[w] /\ failed'[w]) => expiry'[w] <= now ]_vars
    /\ [][ \A w \in Wdcs :
             (failed[w] /\ inSet[w] /\ nWdc' = nWdc /\ inSet' # inSet) =>
                 ~inSet'[w] ]_vars
    /\ [][ \A w \in Wdcs :
             failed[w] => SendsOf(sends', w) = SendsOf(sends, w) ]_vars


\* C31: when a rotation is detected and no file of the directory has the
\* stored identity, the cycle ends with an empty batch, the cursor at 0 and
\* the new identity adopted, and the agent goes on to its next cycle.
C31_RotationWithoutPredecessor ==
    [][ ( /\ apc = "remaining"
          /\ ~(oldPresent /\ oldId = pfId)
          /\ apc' # apc )
        => ( /\ apc' = "idle"
             /\ cursor' = 0
             /\ pfId' = curId
             /\ linesRead' = linesRead ) ]_vars


\* C32: a dispatch pass that fails to hand the message of a due working data
\* connection (result present, marked updated) to its producer leaves that
\* connection expired at once, so that no later pass offers it again.
C32_DispatchFailureExpires ==
    [][ nPasses' # nPasses
        => \A w \in Wdcs :
              (inSet[w] /\ result[w] # 0 /\ isUpdated[w] = "true")
              => expiry'[w] <= now' ]_vars


(* ------------- claims about the expiry of a WorkingDataConnection ------- *)

\* C33 as stated: after update_expired_time(0) the next check_expired_time
\* call leaves the status EXPIRED, whatever the clock reads at that call.
C33_ForcedExpiry ==
    [][ (forcedAt # -1 /\ checkedAt' # checkedAt /\ checkedAt' # -1)
        => status' = "EXPIRED" ]_vars

\* C33, amended: after update_expired_time(0) a check_expired_time call made
\* at a later clock reading leaves the status EXPIRED; a connection without
\* an expired_time is not EXPIRED and a check_expired_time call leaves its
\* status as it is.
C33_ForcedExpiryLater ==
    /\ [][ ( /\ forcedAt # -1
             /\ dataNow > forcedAt
             /\ checkedAt' # checkedAt
             /\ checkedAt' # -1 )
           => status' = "EXPIRED" ]_vars
    /\ [][ (expired_time = -1 /\ checkedAt' # checkedAt /\ checkedAt' # -1)
           => status' = status ]_vars
    /\ [](expired_time = -1 => status # "EXPIRED")

\* a check at a later reading than the forced expiry has been made
C33_Witness ==
    /\ forcedAt # -1
    /\ checkedAt > forcedAt
    /\ status = "EXPIRED"


\* C34: two consecutive enrichment passes
\* (_data_connections_execute_queries) of one agent are at least
\* execute_query_interval apart; the interval is positive, so the second of
\* them reads a later clock than the first.
C34_EnrichmentCadence ==
    [][ (lastPass # -1 /\ nWdc' # nWdc) => now' > lastPass ]_vars


(* ------------------ claims about the matching of lines ------------------ *)

\* the (line, data connection) pairs of the latest call where the data
\* connection is registered for the path file and its regex matched the line
MatchedPairs ==
    { p \in (1 .. Len(mLines)) \X (1 .. Len(mConns)) :
        RegexMatched(mFile, mLines[p[1]], mConns[p[2]]) }

\* C35: the working data connections that _data_connections_match_regex
\* returns for a path file are exactly one per (line, data connection) pair
\* where the data connection is registered for that file and its regex
\* matched the line, each carrying the match.
C35_OneWdcPerMatch ==
    /\ \A k \in 1 .. Len(mOut) :
          mOut[k].match /\ << mOut[k].line, mOut[k].conn >> \in MatchedPairs
    /\ \A p \in MatchedPairs :
          Cardinality({ k \in 1 .. Len(mOut) :
                          mOut[k].line = p[1] /\ mOut[k].conn = p[2] }) = 1


(* ---------------- claims about the orchestrator, continued -------------- *)

\* C36: a mark_disconnected call racing with a reconnect never undoes it.
\* When a connect has succeeded, the ensure_connected call that made it has
\* set the flag and returned, and the resource has not lost its connection
\* since (so that no probe after the connect can have found it not alive),
\* the connected flag is set.
C36_ReconnectNotUndone ==
    ( /\ alive
      /\ drops = 0
      /\ \A t \in Threads : pc[t] \notin {"cwr_set", "ec_ret"} )
    => connected


\* C37: when the future of a working data connection's query has completed,
\* with rows, with an empty or null result or with an exception, the
\* connection is no longer in the query-in-flight state.
C37_NoWdcStuck ==
    lastDone # "none" => status # "QUERY_RUNNING"


(* -------- claims about the working data connections, continued ---------- *)

\* C38: no lost update between the completion callback and the dispatch
\* pass. Whenever a working data connection of the working set is quiescent
\* (query_in_progress and is_updated both False) and holds a result, the last
\* message handed to a producer for it carries that result.
C38_NoLostUpdate ==
    \A w \in Wdcs :
        ( /\ inSet[w]
          /\ inProgress[w] = "false"
          /\ isUpdated[w] = "false"
          /\ result[w] # 0 )
        => ( /\ SendsOf(sends, w) # << >>
             /\ SendsOf(sends, w)[Len(SendsOf(sends, w))][2] = result[w] )


(* ------------- claims about the producer's shutdown, continued ---------- *)

\* C39: no send after close. Once stop(timeout) has called close(), the
\* worker invokes neither _send nor the resource's connect again, whatever
\* the timeout.
C39_NoSendAfterClose ==
    [][ closed => (sendCount' = sendCount /\ connectCalls' = connectCalls) ]_vars


\* C40: shutdown does not depend on connectivity. With a resource that can
\* never be connected, a stop() without timeout returns because the worker,
\* inside ensure_connected, observes the stop flag and exits: when the call
\* has returned the worker has left through its loop test.
C40_StopObserved ==
    (stopPc = "returned" /\ ~stopTimeout) => wpc = "exited"

\* with a resource that never connects, stop() returns all the same in the
\* end: join is released when RecursionError has ended the worker thread
StopReturnsInTheEnd ==
    (stopPc = "join") ~> (stopPc = "returned")

====
